---------------------------- MODULE Spec2Model ----------------------------
(***************************************************************************)
(* A model of weekly-generator: the message harvester                      *)
(* (src/src/utils.py, fetch_messages_from_past) and the deal classifier    *)
(* (src/summary_generator.py, fetch_recent_pipedrive_deals).               *)
(*                                                                         *)
(* Strings that the code compares (ISO timestamps, CRM time strings) are   *)
(* sequences of character codes, compared as Python compares str.          *)
(***************************************************************************)
EXTENDS Integers, Sequences, FiniteSets, TLC

(* ------------------------------ bounds -------------------------------- *)

\* Longest message feed of a channel or thread.
MaxFeed == 4

\* Page size of channel.history (limit=100 in the code), scaled down.
PageSize == 2

\* The harvester's cutoff instant (now - days), in half-second ticks.
CutoffTick == 2

\* Longest text given to the inline parser.
MaxText == 6

\* Most lines of a markdown text.
MaxLines == 3

\* Longest deal list the CRM returns.
MaxDeals == 2

\* The day of now - days, as a day number (one digit of the date string).
WindowStart == 2

\* Largest deal value, in half currency units.
MaxValue == 3

\* Most messages of a collection given to a summary operation.
MaxMessages == 2

\* Ticks of the clock in a day, and ticks that pass during a run at most.
TicksPerDay == 2
MaxElapsed == 2

\* Most active and most archived threads of a channel.
MaxThreads == 1

\* Longest flow (change history) of a deal.
MaxFlow == 2

\* Longest feed of messages that carry content.
MaxUrlFeed == 2

\* Longest text of the calls of the inline parser that are followed to their end.
MaxLiveText == 5

\* DAYS_TO_LOOK_BACK = int(os.getenv('DAYS_TO_LOOK_BACK', '7'))
DAYS_TO_LOOK_BACK == 7

(* --------------------------- strings ---------------------------------- *)

\* Character codes of the characters that occur in the compared strings.
Ord == [space |-> 32, plus |-> 43, dot |-> 46, zero |-> 48, five |-> 53, T |-> 84]

\* Python's str < str: lexicographic on code points, a proper prefix is smaller.
RECURSIVE StrLess(_, _)
StrLess(a, b) ==
    IF b = <<>> THEN FALSE
    ELSE IF a = <<>> THEN TRUE
    ELSE IF Head(a) # Head(b) THEN Head(a) < Head(b)
    ELSE StrLess(Tail(a), Tail(b))

\* datetime.isoformat() of an aware UTC datetime: the seconds, then the
\* fraction only when it is not zero, then the offset.
IsoFormat(t) ==
    <<Ord.zero + (t \div 2)>>
        \o (IF t % 2 = 0 THEN <<>> ELSE <<Ord.dot, Ord.five>>)
        \o <<Ord.plus>>

(* --------------------------- harvester -------------------------------- *)

NoMessage == [id |-> 0, created_at |-> 0, bot |-> FALSE, content |-> <<>>]
NoCursor == 0

\* Creation instants a platform message can have: before, at and after the cutoff.
Ticks == {CutoffTick - 1, CutoffTick, CutoffTick + 1}

\* The id of a thread, which is the id of the message that started it.
ThreadId == 1

VARIABLES
    feed,           \* the source's messages, newest id first
    is_thread,      \* the is_thread argument
    origin,         \* what channel.parent.fetch_message(channel.id) finds, or NoMessage
    pc,             \* position in fetch_messages_from_past
    first_message,  \* the local first_message (NoMessage for None)
    last_id,        \* the pagination cursor (NoCursor for None)
    fetch_more,     \* the loop flag
    messages,       \* the list being built
    result,         \* the returned list
    outcome,        \* "running" or "returned"
    requests,       \* the 'before' cursor of every history request made
    pages,          \* the page every request returned
    origin_fault,   \* the thread-origin fetch failed
    read_fault      \* a history read failed

hvars == <<feed, is_thread, origin, pc, first_message, last_id, fetch_more,
           messages, result, outcome, requests, pages, origin_fault, read_fault>>

VARIABLES
    deals,          \* deals_data['data'], in the order the CRM returned it
    dpc,            \* position in fetch_recent_pipedrive_deals
    filtered,       \* filter_deals_with_value_change(deals_data), as indexes
    vi,             \* deals of filtered already handled by the value pass
    di,             \* deals already visited by the per-deal pass
    converted, churned, lost_deals, to_convert, new_trials, upgrades, downgrades,
    lookups,        \* the calls of check_if_previously_won and their answers
    dresult,        \* the returned mapping, or NoResult
    fetch_outcome,  \* how the deal request went: "nocred", "fault", "ok", or "none" yet
    changes,        \* the calls of get_deal_value_change and their answers
    organizations,  \* the answer to the organizations request, or NoResponse
    first_run       \* the mapping an earlier call returned, or NoResult

dvars == <<deals, dpc, filtered, vi, di, converted, churned, lost_deals,
           to_convert, new_trials, upgrades, downgrades, lookups, dresult,
           fetch_outcome, changes, organizations, first_run>>

VARIABLES
    crm_deals,        \* the deals the CRM holds, of every status
    wpc,              \* position in calculate_total_won_value
    total_won_value   \* what calculate_total_won_value returned

wvars == <<crm_deals, wpc, total_won_value>>

VARIABLES
    text,           \* the argument of parse_rich_text_with_links
    current_pos,    \* the scan position, an offset into text
    rich_text,      \* the runs built so far
    spans,          \* for every run: where the scan stood and what it consumed
    parsed,         \* the returned runs, or NoRuns
    ppc             \* position in parse_rich_text_with_links

pvars == <<text, current_pos, rich_text, spans, parsed, ppc>>

VARIABLES
    markdown,       \* the argument of convert_markdown_to_blocks
    lines,          \* markdown.split('\n')
    li,             \* lines already handled by the loop
    blocks,         \* the blocks built so far
    sources,        \* for every block: the index of the line it was made from
    bpc             \* position in convert_markdown_to_blocks

bvars == <<markdown, lines, li, blocks, sources, bpc>>

VARIABLES
    operation,      \* the public operation that is called
    all_messages,   \* the message collection it is given
    spc,            \* position in the operation
    prompt,         \* what the operation has gathered for the oracle
    summary,        \* what the operation returned, or NoSummary
    oracle_calls,   \* calls of openai_client.chat.completions.create
    crm_calls,      \* requests sent to the CRM
    process         \* "running", or "exited" after sys.exit

svars == <<operation, all_messages, spc, prompt, summary, oracle_calls, crm_calls,
          process>>

VARIABLES
    clock,          \* the instant the system clock shows, in ticks of UTC
    utc_offset,     \* what local time is ahead of UTC, in ticks
    rpc,            \* how many window tests of the run were made
    window_tests    \* for every window test made: the now it read and its window start

rvars == <<clock, utc_offset, rpc, window_tests>>

VARIABLES
    channel,          \* the channel given to process_channel and its threads
    cphase,           \* the statement process_channel stands at
    ci,               \* threads of the current loop already tested
    pending,          \* the thread process_thread is called with, or NoThread
    ctime,            \* the instant the system clock shows
    harvests,         \* the sources fetch_messages_from_past was called for
    summarized,       \* the threads generate_thread_summary asked the oracle about
    thread_summaries, \* the thread_summaries dict
    collected,        \* the all_messages list of process_channel
    thread_tests      \* the calls of is_thread_recent and their answers

cvars == <<channel, cphase, ci, pending, ctime, harvests, summarized,
           thread_summaries, collected, thread_tests>>

VARIABLES
    flow_data,      \* the 'data' list of the deal's flow, as the CRM answers
    lookup,         \* "won": check_if_previously_won, "change": get_deal_value_change
    fi,             \* flow items already walked over
    flow_answer,    \* what the lookup returned, or NoAnswer
    flow_fetched,   \* the flow request was answered with success
    fpc             \* position in the lookup

fvars == <<flow_data, lookup, fi, flow_answer, flow_fetched, fpc>>

\* What the actions of one component leave alone: the other components.
hrest == <<dvars, wvars, pvars, bvars, svars, rvars, cvars, fvars>>
drest == <<hvars, wvars, pvars, bvars, svars, rvars, cvars, fvars>>
wrest == <<hvars, dvars, pvars, bvars, svars, rvars, cvars, fvars>>
prest == <<hvars, dvars, wvars, bvars, svars, rvars, cvars, fvars>>
brest == <<hvars, dvars, wvars, pvars, svars, rvars, cvars, fvars>>
srest == <<hvars, dvars, wvars, pvars, bvars, rvars, cvars, fvars>>
rrest == <<hvars, dvars, wvars, pvars, bvars, svars, cvars, fvars>>
crest == <<hvars, dvars, wvars, pvars, bvars, svars, rvars, fvars>>
frest == <<hvars, dvars, wvars, pvars, bvars, svars, rvars, cvars>>

\* A raw platform message.
RawMessage(i, t, b) == [id |-> i, created_at |-> t, bot |-> b, content |-> <<>>]

\* A raw platform message with content: a list of words and links.
ContentMessage(i, t, b, c) == [id |-> i, created_at |-> t, bot |-> b, content |-> c]

\* A piece of content: a scheme (none for a word) and what follows it.
Word(w) == [scheme |-> "", rest |-> w]
Link(scheme, rest) == [scheme |-> scheme, rest |-> rest]

\* The contents of a message: none, a word and a link, a link to the code
\* host, three links with one to the code host written with capitals, and
\* the code host's name with no scheme before it.
ContentSamples ==
    {<<>>,
     <<Word("see"), Link("https://", "example.com/a")>>,
     <<Link("https://", "github.com/org/repo")>>,
     <<Link("https://", "docs.org/b"), Link("http://", "GitHub.com/org"),
       Link("https://", "example.com/a")>>,
     <<Word("github.com")>>}


\* The feeds: ids fall from the newest message to the oldest and are all
\* larger than ThreadId, except that the oldest may be the thread's own
\* starter message.
FeedIds(n, withStarter) ==
    [i \in 1..n |-> IF withStarter /\ i = n THEN ThreadId ELSE ThreadId + 1 + (n - i)]

Feeds(longest) ==
    UNION { { [i \in 1..n |-> RawMessage(FeedIds(n, ws)[i], ts[i], bs[i])] :
                ts \in [1..n -> Ticks], bs \in [1..n -> BOOLEAN] } :
            n \in 0..longest, ws \in BOOLEAN }

\* The feeds of messages with content: every message is inside the window
\* and written by a person.
ContentFeeds(longest) ==
    UNION { { [i \in 1..n |-> ContentMessage(FeedIds(n, ws)[i], CutoffTick + 1, FALSE, cs[i])] :
                cs \in [1..n -> ContentSamples] } :
            n \in 0..longest, ws \in BOOLEAN }

FeedMessage(f, i) == CHOOSE m \in {f[k] : k \in 1..Len(f)} : m.id = i
InFeed(f, i) == \E k \in 1..Len(f) : f[k].id = i

\* channel.history(limit=100, before=last_id): the newest PageSize messages
\* older than the cursor.
History(before) ==
    LET older == SelectSeq(feed, LAMBDA m : before = NoCursor \/ m.id < before)
    IN  SubSeq(older, 1, IF Len(older) < PageSize THEN Len(older) ELSE PageSize)

\* fetched_messages[-1].id
OldestId_First(page) == page[1].id
OldestId(page) == page[Len(page)].id

\* message.created_at < cutoff_date
BeforeCutoff_Never(m) == FALSE
BeforeCutoff_Reversed(m) == m.created_at > CutoffTick
BeforeCutoff(m) == m.created_at < CutoffTick

\* message.author.bot
SkipBot_Never(m) == FALSE
SkipBot(m) == m.bot

\* is_thread and first_message and message.id == first_message.id
SkipFirstMessage_Never(m) == FALSE
SkipFirstMessage(m) ==
    is_thread /\ first_message # NoMessage /\ m.id = first_message.id

\* re.findall(url_pattern, text): the pieces that begin with http:// or
\* https://, in their order.
MatchesUrlPattern(piece) == piece.scheme \in {"http://", "https://"}
extract_urls(content) == SelectSeq(content, MatchesUrlPattern)

\* url.lower(), and 'github.com' in it
LowerCase(rest) == IF rest = "GitHub.com/org" THEN "github.com/org" ELSE rest
UrlLower(url) == [url EXCEPT !.rest = LowerCase(url.rest)]
HasGithub(url) == url.rest \in {"github.com/org/repo", "github.com/org"}

\* urls = [url for url in urls if 'github.com' not in url.lower()]
WithoutGithub(urls) == SelectSeq(urls, LAMBDA url : ~HasGithub(UrlLower(url)))

\* MessageData(...) of a paginated message and of the thread starter; the
\* urls of the starter are what extract_urls gives.
MessageData(m, starter) ==
    [id |-> m.id, timestamp |-> IsoFormat(m.created_at), starter |-> starter,
     urls |-> IF starter THEN extract_urls(m.content)
              ELSE WithoutGithub(extract_urls(m.content))]

\* The for loop over one page: the list with the page's survivors appended,
\* and whether the loop left through the cutoff break.
RECURSIVE ScanPage(_, _, _)
ScanPage(page, i, msgs) ==
    IF i > Len(page) THEN [messages |-> msgs, crossed |-> FALSE]
    ELSE IF BeforeCutoff(page[i]) THEN [messages |-> msgs, crossed |-> TRUE]
    ELSE IF SkipBot(page[i]) \/ SkipFirstMessage(page[i])
         THEN ScanPage(page, i + 1, msgs)
         ELSE ScanPage(page, i + 1, Append(msgs, MessageData(page[i], FALSE)))

\* list.sort(key=lambda x: x.timestamp): stable, ascending on the string key.
RECURSIVE InsertSorted(_, _)
InsertSorted(s, x) ==
    IF s = <<>> THEN <<x>>
    ELSE IF StrLess(x.timestamp, s[Len(s)].timestamp)
         THEN Append(InsertSorted(SubSeq(s, 1, Len(s) - 1), x), s[Len(s)])
         ELSE Append(s, x)

RECURSIVE SortPrefix(_, _)
SortPrefix(s, n) ==
    IF n = 0 THEN <<>> ELSE InsertSorted(SortPrefix(s, n - 1), s[n])

SortByTimestamp_Unsorted(s) == s
SortByTimestamp(s) == SortPrefix(s, Len(s))

\* is_thread and first_message and not first_message.author.bot
AddsFirstMessage_BotToo == is_thread /\ first_message # NoMessage
AddsFirstMessage ==
    is_thread /\ first_message # NoMessage /\ ~first_message.bot

HarvestInit ==
    /\ feed \in Feeds(MaxFeed)
    /\ is_thread \in BOOLEAN
    /\ origin \in IF ~is_thread THEN {NoMessage}
                  ELSE IF InFeed(feed, ThreadId) THEN {FeedMessage(feed, ThreadId)}
                  ELSE {NoMessage} \cup
                       {RawMessage(ThreadId, t, b) : t \in Ticks, b \in BOOLEAN}
    /\ pc = "start"
    /\ first_message = NoMessage
    /\ last_id = NoCursor
    /\ fetch_more = TRUE
    /\ messages = <<>>
    /\ result = <<>>
    /\ outcome = "running"
    /\ requests = <<>>
    /\ pages = <<>>
    /\ origin_fault = FALSE
    /\ read_fault = FALSE

\* A call on a channel or thread whose messages have content.
UrlsInit ==
    /\ feed \in ContentFeeds(MaxUrlFeed)
    /\ is_thread \in BOOLEAN
    /\ origin \in IF ~is_thread THEN {NoMessage}
                  ELSE IF InFeed(feed, ThreadId) THEN {FeedMessage(feed, ThreadId)}
                  ELSE {NoMessage} \cup
                       {ContentMessage(ThreadId, t, FALSE, c) :
                            t \in Ticks, c \in ContentSamples}
    /\ pc = "start"
    /\ first_message = NoMessage
    /\ last_id = NoCursor
    /\ fetch_more = TRUE
    /\ messages = <<>>
    /\ result = <<>>
    /\ outcome = "running"
    /\ requests = <<>>
    /\ pages = <<>>
    /\ origin_fault = FALSE
    /\ read_fault = FALSE

\* A channel: first_message stays None.
NotAThread ==
    /\ UNCHANGED hrest
    /\ pc = "start" /\ ~is_thread
    /\ pc' = "page"
    /\ UNCHANGED <<feed, is_thread, origin, first_message, last_id, fetch_more,
                   messages, result, outcome, requests, pages, origin_fault,
                   read_fault>>

\* first_message = await channel.parent.fetch_message(channel.id)
FetchFirstMessage ==
    /\ UNCHANGED hrest
    /\ pc = "start" /\ is_thread /\ origin # NoMessage
    /\ first_message' = origin
    /\ pc' = "page"
    /\ UNCHANGED <<feed, is_thread, origin, last_id, fetch_more, messages,
                   result, outcome, requests, pages, origin_fault, read_fault>>

\* The inner except: the fetch raised (no such message, no access).
FirstMessageFault_Propagates ==
    /\ UNCHANGED hrest
    /\ pc = "start" /\ is_thread
    /\ origin_fault' = TRUE
    /\ result' = <<>>
    /\ outcome' = "returned"
    /\ pc' = "done"
    /\ UNCHANGED <<feed, is_thread, origin, first_message, last_id, fetch_more,
                   messages, requests, pages, read_fault>>

FirstMessageFault ==
    /\ UNCHANGED hrest
    /\ pc = "start" /\ is_thread
    /\ origin_fault' = TRUE
    /\ pc' = "page"
    /\ UNCHANGED <<feed, is_thread, origin, first_message, last_id, fetch_more,
                   messages, result, outcome, requests, pages, read_fault>>

\* One iteration of the while loop with a page read without fault.
FetchPage ==
    /\ UNCHANGED hrest
    /\ pc = "page" /\ fetch_more
    /\ LET page == History(last_id)
           scan == ScanPage(page, 1, messages)
       IN  /\ requests' = Append(requests, last_id)
           /\ pages' = Append(pages, page)
           /\ IF page = <<>>
              THEN /\ fetch_more' = FALSE
                   /\ UNCHANGED <<last_id, messages>>
              ELSE /\ last_id' = OldestId(page)
                   /\ messages' = scan.messages
                   /\ fetch_more' = (~scan.crossed /\ ~(Len(page) < PageSize))
    /\ UNCHANGED <<feed, is_thread, origin, pc, first_message, result, outcome,
                   origin_fault, read_fault>>

\* The outer except: reading the history raised; the call returns [].
ReadFault ==
    /\ UNCHANGED hrest
    /\ pc = "page" /\ fetch_more
    /\ requests' = Append(requests, last_id)
    /\ read_fault' = TRUE
    /\ result' = <<>>
    /\ outcome' = "returned"
    /\ pc' = "done"
    /\ UNCHANGED <<feed, is_thread, origin, first_message, last_id, fetch_more,
                   messages, pages, origin_fault>>

\* After the loop: sort, prepend the thread starter, return.
SortAndReturn ==
    /\ UNCHANGED hrest
    /\ pc = "page" /\ ~fetch_more
    /\ LET sorted == SortByTimestamp(messages)
       IN  messages' = IF AddsFirstMessage
                       THEN <<MessageData(first_message, TRUE)>> \o sorted
                       ELSE sorted
    /\ result' = messages'
    /\ outcome' = "returned"
    /\ pc' = "done"
    /\ UNCHANGED <<feed, is_thread, origin, first_message, last_id, fetch_more,
                   requests, pages, origin_fault, read_fault>>

(* ------------------- properties of the harvester ---------------------- *)

\* Creation instant and bot flag of the platform message with id i.
CreatedAt(i) ==
    IF InFeed(feed, i) THEN FeedMessage(feed, i).created_at ELSE origin.created_at
IsBot(i) == IF InFeed(feed, i) THEN FeedMessage(feed, i).bot ELSE origin.bot

Returned == pc = "done" /\ outcome = "returned"

Count(s, P(_)) == Cardinality({k \in 1..Len(s) : P(s[k])})

CeilDiv(a, b) == (a + b - 1) \div b

\* The feed messages inside the window, and those of them that are not bot-authored.
InWindowCount == Count(feed, LAMBDA m : m.created_at >= CutoffTick)
QualifyingCount == Count(feed, LAMBDA m : m.created_at >= CutoffTick /\ ~m.bot)

\* The part of the feed that is newer than its first message older than the cutoff.
RECURSIVE UntilCutoff(_)
UntilCutoff(f) ==
    IF f = <<>> \/ Head(f).created_at < CutoffTick THEN <<>>
    ELSE <<Head(f)>> \o UntilCutoff(Tail(f))

OrderedFrom(s, from) ==
    \A k \in from..(Len(s) - 1) : CreatedAt(s[k].id) <= CreatedAt(s[k + 1].id)

StarterInserted == result # <<>> /\ result[1].starter

\* C1: the returned collection holds no message created before the window
\* start, except the thread's origin message (the starter record at index 0).
C1_NoMessageBeforeWindow ==
    Returned =>
        \A k \in 1..Len(result) :
            CreatedAt(result[k].id) < CutoffTick =>
                (k = 1 /\ result[k].starter /\ result[k].id = ThreadId)

\* C1 witness: a thread whose old origin message was prepended while an old
\* message of the feed was cut off and a message inside the window was kept.
C1_Witness ==
    /\ Returned /\ StarterInserted
    /\ CreatedAt(result[1].id) < CutoffTick
    /\ Len(result) >= 2
    /\ \E k \in 1..Len(feed) : feed[k].created_at < CutoffTick /\ feed[k].id # ThreadId

\* C2 (as claimed): every returned collection, with or without an inserted
\* thread-origin message, is sorted by non-decreasing timestamp.
C2_SortedByTimestamp == Returned => OrderedFrom(result, 1)

\* C2 (amended): the returned messages other than an inserted thread-origin
\* message are sorted by non-decreasing timestamp; the origin message stands
\* at index 0 whatever its timestamp, so the whole collection is sorted when
\* no origin message was inserted or the origin is not newer than the
\* message that follows it.
C2_SortedExceptStarter ==
    Returned =>
        /\ OrderedFrom(result, IF StarterInserted THEN 2 ELSE 1)
        /\ (StarterInserted /\ Len(result) >= 2
              /\ CreatedAt(result[1].id) <= CreatedAt(result[2].id))
            => OrderedFrom(result, 1)
        /\ \A k \in 1..(Len(result) - 1) :
              (k > 1 \/ ~StarterInserted) =>
                  ~StrLess(result[k + 1].timestamp, result[k].timestamp)

\* C2 witness: an origin message newer than the message after it, followed
\* by messages of different instants that the feed delivered newest first.
C2_Witness ==
    /\ Returned /\ StarterInserted
    /\ Len(result) >= 3
    /\ CreatedAt(result[1].id) > CreatedAt(result[2].id)
    /\ CreatedAt(result[2].id) < CreatedAt(result[3].id)

\* C3 (as claimed): harvesting a thread whose origin message exists and is
\* not bot-authored returns it exactly once, at index 0.
C3_OriginOnceAtIndexZero ==
    (Returned /\ is_thread /\ first_message # NoMessage /\ ~first_message.bot) =>
        /\ result # <<>>
        /\ result[1] = MessageData(first_message, TRUE)
        /\ Count(result, LAMBDA m : m.id = first_message.id) = 1

\* C3 (amended): harvesting a thread whose origin message was fetched and is
\* not bot-authored returns it exactly once, at index 0, unless a fault while
\* reading the history makes the call return the empty collection.
C3_OriginOnceUnlessReadFault ==
    (Returned /\ is_thread /\ first_message # NoMessage /\ ~first_message.bot
       /\ ~read_fault) =>
        /\ result # <<>>
        /\ result[1] = MessageData(first_message, TRUE)
        /\ Count(result, LAMBDA m : m.id = first_message.id) = 1

\* C3 witness: the history itself delivered the origin message inside the
\* window, next to other messages, and the origin is newer than one of them.
C3_Witness ==
    /\ Returned /\ StarterInserted /\ ~read_fault
    /\ \E p \in 1..Len(pages) : \E k \in 1..Len(pages[p]) :
          /\ pages[p][k].id = first_message.id
          /\ ~BeforeCutoff(pages[p][k])
    /\ Len(result) >= 2
    /\ CreatedAt(result[1].id) > CreatedAt(result[2].id)

\* C4: no bot-authored message is returned, neither a paginated message nor
\* the thread-origin message.
C4_NoBotInOutput ==
    /\ \A k \in 1..Len(messages) : ~IsBot(messages[k].id)
    /\ \A k \in 1..Len(result) : ~IsBot(result[k].id)

\* C4 witness: a thread with a bot-authored origin message that was fetched,
\* a bot message inside the window in the feed, and a non-empty result.
C4_Witness ==
    /\ Returned /\ result # <<>>
    /\ first_message # NoMessage /\ first_message.bot
    /\ \E k \in 1..Len(feed) :
          feed[k].bot /\ feed[k].created_at >= CutoffTick /\ feed[k].id # ThreadId

\* C5 (as claimed): at most ceil(q / P) + 1 page fetches, q the number of
\* messages inside the window that are not bot-authored.
C5_FetchBoundQualifying ==
    Len(requests) <= CeilDiv(QualifyingCount, PageSize) + 1

\* C5 (amended): at most ceil(w / P) + 1 page fetches, w the number of feed
\* messages inside the window, bot-authored ones included.
C5_FetchBoundInWindow ==
    Len(requests) <= CeilDiv(InWindowCount, PageSize) + 1

\* C5 witness: a harvest that needed exactly ceil(w / P) + 1 fetches, more
\* than one of them, over a window that holds a bot-authored message.
C5_Witness ==
    /\ Returned /\ ~read_fault
    /\ Len(requests) = CeilDiv(InWindowCount, PageSize) + 1
    /\ Len(requests) >= 2
    /\ InWindowCount > QualifyingCount

PageStops(p) ==
    \/ p = <<>>
    \/ Len(p) < PageSize
    \/ \E k \in 1..Len(p) : p[k].created_at < CutoffTick

\* C6: the first request has no cursor; a further request is made only after
\* a full page with no message older than the window start, and then with
\* the id of that page's last message as cursor; after an empty page, a
\* short page or a page holding an older message the loop is over.
C6_PaginationProtocol ==
    /\ requests # <<>> => requests[1] = NoCursor
    /\ \A i \in 2..Len(requests) :
          /\ ~PageStops(pages[i - 1])
          /\ requests[i] = pages[i - 1][Len(pages[i - 1])].id
    /\ (pc = "page" /\ pages # <<>>) =>
          (fetch_more <=> ~PageStops(pages[Len(pages)]))
    /\ (Returned /\ ~read_fault) =>
          (pages # <<>> /\ PageStops(pages[Len(pages)]))

\* C6 witness: a request with a cursor, answered by a full page whose first
\* message is inside the window and whose last message is older than it.
C6_Witness ==
    /\ Returned /\ ~read_fault
    /\ Len(requests) >= 2
    /\ LET p == pages[Len(pages)]
       IN  /\ Len(p) = PageSize
           /\ p[1].created_at >= CutoffTick
           /\ p[PageSize].created_at < CutoffTick

\* C7: a fault while reading the history, on the first page or later, makes
\* the call return the empty collection; a fault while fetching only the
\* thread-origin message leaves the collection of the history's surviving
\* messages as it is without that fault.
C7_FaultPolicy ==
    /\ read_fault => (Returned /\ result = <<>>)
    /\ pc = "done" => outcome = "returned"
    /\ (Returned /\ origin_fault /\ ~read_fault) =>
          result = SortByTimestamp(
                      [k \in 1..Len(SelectSeq(UntilCutoff(feed), LAMBDA m : ~m.bot)) |->
                          MessageData(SelectSeq(UntilCutoff(feed), LAMBDA m : ~m.bot)[k],
                                      FALSE)])

\* C7 witness: the origin fetch failed, a page was read and yielded
\* messages, and the next read failed: the call returned the empty list.
C7_Witness ==
    /\ Returned /\ origin_fault /\ read_fault
    /\ origin # NoMessage
    /\ pages # <<>> /\ messages # <<>>
    /\ result = <<>>


\* The platform message with id i.
Platform(i) == IF InFeed(feed, i) THEN FeedMessage(feed, i) ELSE origin

\* The urls of a text that do not contain github.com in any case, in order.
UrlsOffCodeHost(content) ==
    SelectSeq(extract_urls(content), LAMBDA url : ~HasGithub(UrlLower(url)))

\* C26 (as claimed): no message of the returned collection, the thread
\* starter included, has among its urls one that contains github.com in any
\* case, and its urls are the other urls of its content in their order.
C26_NoGithubUrl ==
    Returned =>
        \A k \in 1..Len(result) :
            /\ \A u \in 1..Len(result[k].urls) :
                  ~HasGithub(UrlLower(result[k].urls[u]))
            /\ result[k].urls = UrlsOffCodeHost(Platform(result[k].id).content)

\* The same for the messages that were read from the history.
HistoryMessagesWithoutGithub ==
    Returned =>
        \A k \in 1..Len(result) :
            ~result[k].starter =>
                /\ \A u \in 1..Len(result[k].urls) :
                      ~HasGithub(UrlLower(result[k].urls[u]))
                /\ result[k].urls = UrlsOffCodeHost(Platform(result[k].id).content)

\* The urls of the thread starter are all the urls of its content.
StarterKeepsEveryUrl ==
    Returned =>
        \A k \in 1..Len(result) :
            result[k].starter =>
                result[k].urls = extract_urls(Platform(result[k].id).content)

(* ------------------------- deal classifier ---------------------------- *)

NoTime == 0
NoResult == [returned |-> FALSE]

\* The days a CRM time can fall on: before, on and after the day of now - days.
Dates == {WindowStart - 1, WindowStart, WindowStart + 1}

\* A CRM time string 'YYYY-MM-DD HH:MM:SS' of day d.
PdTime(d) == <<Ord.zero + d, Ord.space, Ord.zero>>

\* s.split(' ')[0]
RECURSIVE DatePart(_)
DatePart(s) ==
    IF s = <<>> \/ Head(s) = Ord.space THEN <<>>
    ELSE <<Head(s)>> \o DatePart(Tail(s))

\* (datetime.now() - timedelta(days=DAYS_TO_LOOK_BACK)).strftime('%Y-%m-%d')
SevenDaysAgo == <<Ord.zero + WindowStart>>

\* (datetime.now(UTC) - timedelta(days=DAYS_TO_LOOK_BACK)).isoformat(); the
\* local day and the UTC day of now - days are the same day here.
SevenDaysAgoIso == <<Ord.zero + WindowStart, Ord.T, Ord.zero, Ord.plus>>

\* Deal titles: a word and whether it is written with capitals.
Titles == {[word |-> "deal", capitals |-> FALSE], [word |-> "churn", capitals |-> TRUE]}

\* str.lower() and the substring test  w in title.
Lower(title) == [title EXCEPT !.capitals = FALSE]
Contains(title, w) == title.word = w /\ ~title.capitals

\* The deals of the CRM: every deal has an update time; a won time or a lost
\* time comes with the status only, and may be missing even then.
Deal(t, st, u, w, l) ==
    [title |-> t, status |-> st, update_time |-> u, won_time |-> w, lost_time |-> l]

DealsUpdatedOn(u) ==
    {Deal(t, "open", u, NoTime, NoTime) : t \in Titles}
        \cup {Deal(t, "won", u, w, NoTime) : t \in Titles, w \in Dates \cup {NoTime}}
        \cup {Deal(t, "lost", u, NoTime, l) : t \in Titles, l \in Dates \cup {NoTime}}

DealRecords == UNION {DealsUpdatedOn(u) : u \in Dates}

\* The deal lists: the request asks for 'sort': 'update_time DESC'.
DealLists(longest) ==
    {ds \in UNION { [1..n -> DealRecords] : n \in 0..longest } :
        \A i \in 1..(Len(ds) - 1) : ds[i].update_time >= ds[i + 1].update_time}

\* deal.get('status') of a deal that carries no status.
NoStatus == "none"

\* Deal titles with the words of the title rules.
KeywordTitles ==
    {[word |-> "upgrade", capitals |-> TRUE],
     [word |-> "downgrade", capitals |-> FALSE],
     [word |-> "trial", capitals |-> TRUE]}

KeywordDealsUpdatedOn(u) ==
    {Deal(t, st, u, NoTime, NoTime) : t \in KeywordTitles, st \in {"open", NoStatus}}
        \cup {Deal(t, "won", u, w, NoTime) : t \in KeywordTitles, w \in Dates \cup {NoTime}}
        \cup {Deal(t, "lost", u, NoTime, l) : t \in KeywordTitles, l \in Dates \cup {NoTime}}

KeywordDealRecords == UNION {KeywordDealsUpdatedOn(u) : u \in Dates}

KeywordDealLists(longest) ==
    {ds \in UNION { [1..n -> KeywordDealRecords] : n \in 0..longest } :
        \A i \in 1..(Len(ds) - 1) : ds[i].update_time >= ds[i + 1].update_time}

\* An entry of a category: the deal it was formatted from and its f-string.
Entry(i, form) == [deal |-> i, form |-> form]

EmptyResult ==
    [returned |-> TRUE, converted |-> <<>>, churned |-> <<>>, lost_deals |-> <<>>,
     upgrades |-> <<>>, downgrades |-> <<>>, new_trials |-> <<>>,
     to_convert |-> <<>>, new_organizations |-> <<>>]

\* The mapping returned without credentials has no to_convert key.
EmptyResultNoCredentials ==
    [returned |-> TRUE, converted |-> <<>>, churned |-> <<>>, lost_deals |-> <<>>,
     upgrades |-> <<>>, downgrades |-> <<>>, new_trials |-> <<>>,
     new_organizations |-> <<>>]

\* What get_deal_value_change returns: a 'Downgrade: ...' text, an
\* 'Upgrade: ...' text, or None.
ValueChangeTexts == {"Downgrade", "Upgrade"}

\* What get_deal_value_change returns when it finds no change or faults.
NoChange == "None"

\* The organizations request: not made yet, failed (an exception or
\* success = false), or answered with organizations added after, on and
\* before the day of now - days and one without an add_time.
NoResponse == [requested |-> FALSE]
Organization(a) == [name |-> "org", add_time |-> a, member_count |-> "?"]
OrganizationResponses ==
    {[requested |-> TRUE, fault |-> TRUE, data |-> <<>>],
     [requested |-> TRUE, fault |-> FALSE,
      data |-> <<Organization(WindowStart + 1), Organization(WindowStart),
                 Organization(WindowStart - 1), Organization(NoTime)>>]}

\* get_new_organizations: [] on a fault, else the organizations with
\* add_time and add_time >= seven_days_ago, as name and member count.
RECURSIVE NewOrganizations(_)
NewOrganizations(orgs) ==
    IF orgs = <<>> THEN <<>>
    ELSE (IF Head(orgs).add_time # NoTime
             /\ ~StrLess(PdTime(Head(orgs).add_time), SevenDaysAgoIso)
          THEN <<[name |-> Head(orgs).name, member_count |-> Head(orgs).member_count]>>
          ELSE <<>>) \o NewOrganizations(Tail(orgs))

GetNewOrganizations(response) ==
    IF response.fault THEN <<>> ELSE NewOrganizations(response.data)

\* downgrades = [], upgrades = [], converted = [], ...: a list of this call.
NewList_Kept(old) == old
NewList(old) == <<>>

\* update_time >= seven_days_ago and won_time is not None and won_time < seven_days_ago
HasValueChangeWindow(d) ==
    /\ ~StrLess(PdTime(d.update_time), SevenDaysAgoIso)
    /\ d.won_time # NoTime
    /\ StrLess(PdTime(d.won_time), SevenDaysAgoIso)

FilterDealsWithValueChange(ds) ==
    SelectSeq([i \in 1..Len(ds) |-> i], LAMBDA i : HasValueChangeWindow(ds[i]))

\* update_date < seven_days_ago and deal_status != 'open'
IsStale_OpenToo(d) == StrLess(DatePart(PdTime(d.update_time)), SevenDaysAgo)
IsStale(d) ==
    StrLess(DatePart(PdTime(d.update_time)), SevenDaysAgo) /\ d.status # "open"

\* t and t.split(' ')[0] >= seven_days_ago, for won_time and lost_time
InsideWindow_Always(t) == TRUE
InsideWindow(t) == t # NoTime /\ ~StrLess(DatePart(PdTime(t)), SevenDaysAgo)

\* 'churn' in deal_title.lower()
TitleSaysChurn_CaseSensitive(d) == Contains(d.title, "churn")
TitleSaysChurn(d) == Contains(Lower(d.title), "churn")

\* The else of  if is_churn: ... else: lost_deals.append(...)
GoesToLostDeals_Always(is_churn) == TRUE
GoesToLostDeals(is_churn) == ~is_churn

\* The if/elif chain on status and title of a deal that was not skipped.
Branch(d) ==
    IF d.status = "won" THEN "won"
    ELSE IF d.status = "lost" THEN "lost"
    ELSE IF d.status = "open" THEN "open"
    ELSE IF Contains(Lower(d.title), "upgrade") THEN "upgrade"
    ELSE IF Contains(Lower(d.title), "downgrade") THEN "downgrade"
    ELSE IF Contains(Lower(d.title), "trial") /\ d.status = "open" THEN "trial"
    ELSE "none"

\* The state at the call, whatever the deal list.
DealsStart ==
    /\ dpc = "start"
    /\ filtered = <<>>
    /\ vi = 0
    /\ di = 0
    /\ converted = <<>> /\ churned = <<>> /\ lost_deals = <<>>
    /\ to_convert = <<>> /\ new_trials = <<>>
    /\ upgrades = <<>> /\ downgrades = <<>>
    /\ lookups = {}
    /\ dresult = NoResult
    /\ fetch_outcome = "none"
    /\ changes = {}
    /\ first_run = NoResult

DealsInit ==
    /\ deals \in DealLists(MaxDeals)
    /\ organizations = NoResponse
    /\ DealsStart

KeywordsInit ==
    /\ deals \in KeywordDealLists(MaxDeals)
    /\ organizations = NoResponse
    /\ DealsStart

\* The organizations request is answered the same however the deals fare.
OrganizationsInit ==
    /\ deals \in DealLists(MaxDeals)
    /\ organizations \in OrganizationResponses
    /\ DealsStart

\* The collaborators answer a repeated request as they answered it before.
SameOutcome(o) == fetch_outcome \in {"none", o}
SameChange(i, change) == \A c \in changes : c.deal = i => c.text = change
SameAnswer(i, answer) == \A c \in lookups : c.deal = i => c.answer = answer
SameOrganizations(response) == organizations \in {NoResponse, response}

\* No CRM credentials: the empty mapping at once.
NoCredentials ==
    /\ UNCHANGED drest
    /\ dpc = "start" /\ SameOutcome("nocred")
    /\ fetch_outcome' = "nocred"
    /\ dresult' = EmptyResultNoCredentials
    /\ dpc' = "done"
    /\ UNCHANGED <<deals, filtered, vi, di, converted, churned, lost_deals,
                   to_convert, new_trials, upgrades, downgrades, lookups,
                   changes, organizations, first_run>>

\* requests.get or raise_for_status or response.json raised, or the response
\* says success = false (and carries no data): the empty mapping.
FetchDealsFault ==
    /\ UNCHANGED drest
    /\ dpc = "start" /\ SameOutcome("fault")
    /\ fetch_outcome' = "fault"
    /\ dresult' = EmptyResult
    /\ dpc' = "done"
    /\ UNCHANGED <<deals, filtered, vi, di, converted, churned, lost_deals,
                   to_convert, new_trials, upgrades, downgrades, lookups,
                   changes, organizations, first_run>>

\* The deal list arrived; filter_deals_with_value_change runs over it. The
\* lists of the call are the empty lists it assigns.
FetchDeals ==
    /\ UNCHANGED drest
    /\ dpc = "start" /\ SameOutcome("ok")
    /\ fetch_outcome' = "ok"
    /\ filtered' = FilterDealsWithValueChange(deals)
    /\ downgrades' = NewList(downgrades) /\ upgrades' = NewList(upgrades)
    /\ converted' = NewList(converted) /\ churned' = NewList(churned)
    /\ lost_deals' = NewList(lost_deals) /\ to_convert' = NewList(to_convert)
    /\ new_trials' = NewList(new_trials)
    /\ dpc' = "value"
    /\ UNCHANGED <<deals, vi, di, lookups, dresult, changes, organizations, first_run>>

\* One deal of the value pass for which get_deal_value_change gave a text.
ValueChange ==
    /\ UNCHANGED drest
    /\ dpc = "value" /\ vi < Len(filtered)
    /\ \E change \in ValueChangeTexts :
          /\ SameChange(filtered[vi + 1], change)
          /\ changes' = changes \cup {[deal |-> filtered[vi + 1], text |-> change]}
          /\ IF change = "Downgrade"
             THEN /\ downgrades' = Append(downgrades, Entry(filtered[vi + 1], "Downgrade"))
                  /\ UNCHANGED upgrades
             ELSE /\ upgrades' = Append(upgrades, Entry(filtered[vi + 1], "Upgrade"))
                  /\ UNCHANGED downgrades
    /\ vi' = vi + 1
    /\ UNCHANGED <<deals, dpc, filtered, di, converted, churned, lost_deals,
                   to_convert, new_trials, lookups, dresult, fetch_outcome,
                   organizations, first_run>>

\* get_deal_value_change gave None: None.startswith raises, the outer except
\* returns the empty mapping.
ValueChangeNone ==
    /\ UNCHANGED drest
    /\ dpc = "value" /\ vi < Len(filtered)
    /\ SameChange(filtered[vi + 1], NoChange)
    /\ changes' = changes \cup {[deal |-> filtered[vi + 1], text |-> NoChange]}
    /\ dresult' = EmptyResult
    /\ dpc' = "done"
    /\ UNCHANGED <<deals, filtered, vi, di, converted, churned, lost_deals,
                   to_convert, new_trials, upgrades, downgrades, lookups,
                   fetch_outcome, organizations, first_run>>

\* One iteration of the per-deal loop.
ProcessDeal ==
    /\ UNCHANGED drest
    /\ dpc = "value" /\ vi = Len(filtered) /\ di < Len(deals)
    /\ di' = di + 1
    /\ LET i == di + 1
           d == deals[i]
           b == IF d.update_time = NoTime \/ IsStale(d) THEN "skip" ELSE Branch(d)
       IN  /\ converted' = IF b = "won" /\ InsideWindow(d.won_time)
                           THEN Append(converted, Entry(i, "company +value"))
                           ELSE converted
           /\ IF b = "lost" /\ InsideWindow(d.lost_time)
              THEN \E answer \in BOOLEAN :
                      LET is_churn == TitleSaysChurn(d) \/ answer
                      IN  /\ SameAnswer(i, answer)
                          /\ lookups' = IF TitleSaysChurn(d) THEN lookups
                                        ELSE lookups \cup {[deal |-> i, answer |-> answer]}
                          /\ churned' = IF is_churn
                                        THEN Append(churned, Entry(i, "company -value (reason)"))
                                        ELSE churned
                          /\ lost_deals' = IF GoesToLostDeals(is_churn)
                                           THEN Append(lost_deals, Entry(i, "company (reason)"))
                                           ELSE lost_deals
              ELSE UNCHANGED <<lookups, churned, lost_deals>>
           /\ to_convert' = IF b = "open" THEN Append(to_convert, Entry(i, "company"))
                            ELSE to_convert
           /\ upgrades' = IF b = "upgrade" THEN Append(upgrades, Entry(i, "company +value"))
                          ELSE upgrades
           /\ downgrades' = IF b = "downgrade"
                            THEN Append(downgrades, Entry(i, "company -value"))
                            ELSE downgrades
           /\ new_trials' = IF b = "trial" THEN Append(new_trials, Entry(i, "company"))
                            ELSE new_trials
    /\ UNCHANGED <<deals, dpc, filtered, vi, dresult, fetch_outcome, changes,
                   organizations, first_run>>

\* After the loop: get_new_organizations, then the mapping is returned.
ReturnDeals ==
    /\ UNCHANGED drest
    /\ dpc = "value" /\ vi = Len(filtered) /\ di = Len(deals)
    /\ \E response \in OrganizationResponses :
          /\ SameOrganizations(response)
          /\ organizations' = response
          /\ dresult' = [returned |-> TRUE, converted |-> converted, churned |-> churned,
                         lost_deals |-> lost_deals, upgrades |-> upgrades,
                         downgrades |-> downgrades, new_trials |-> new_trials,
                         to_convert |-> to_convert,
                         new_organizations |-> GetNewOrganizations(response)]
    /\ dpc' = "done"
    /\ UNCHANGED <<deals, filtered, vi, di, converted, churned, lost_deals,
                   to_convert, new_trials, upgrades, downgrades, lookups,
                   fetch_outcome, changes, first_run>>

\* The caller keeps the mapping and calls again, with the same deal list,
\* the same window and collaborators that answer as before.
Rerun ==
    /\ UNCHANGED drest
    /\ dpc = "done" /\ first_run = NoResult
    /\ first_run' = dresult
    /\ dresult' = NoResult
    /\ dpc' = "start"
    /\ filtered' = <<>> /\ vi' = 0 /\ di' = 0
    /\ UNCHANGED <<deals, converted, churned, lost_deals, to_convert, new_trials,
                   upgrades, downgrades, lookups, fetch_outcome, changes, organizations>>

(* ----------------- properties of the deal classifier ------------------ *)

CountFor(cat, i) == Cardinality({k \in 1..Len(cat) : cat[k].deal = i})
InCategory(cat, i) == CountFor(cat, i) > 0

\* A category of the returned mapping (empty when the key is absent).
Returns(key) ==
    IF dresult.returned /\ key \in DOMAIN dresult THEN dresult[key] ELSE <<>>

\* Rule 1 of the decision table: updated before the window and not open.
StaleDeal(d) == d.update_time < WindowStart /\ d.status # "open"

LostInsideWindow(d) ==
    d.status = "lost" /\ d.lost_time # NoTime /\ d.lost_time >= WindowStart

ChurnInTitle(d) == d.title.word = "churn"

LookupsFor(i) == {c \in lookups : c.deal = i}

PrecedenceCount(i) ==
    CountFor(converted, i) + CountFor(churned, i)
        + CountFor(lost_deals, i) + CountFor(to_convert, i)

ReturnedPrecedenceCount(i) ==
    CountFor(Returns("converted"), i) + CountFor(Returns("churned"), i)
        + CountFor(Returns("lost_deals"), i) + CountFor(Returns("to_convert"), i)

\* C8: in the per-deal pass every deal has an entry in at most one of
\* converted, churned, lost_deals, to_convert, and a deal skipped as stale
\* has an entry in none of them.
C8_PrecedenceDisjoint ==
    \A i \in 1..Len(deals) :
        /\ PrecedenceCount(i) <= 1
        /\ ReturnedPrecedenceCount(i) <= 1
        /\ i > di => PrecedenceCount(i) = 0
        /\ StaleDeal(deals[i]) =>
              (PrecedenceCount(i) = 0 /\ ReturnedPrecedenceCount(i) = 0)

\* C8 witness: the pass has put one deal in churned (after a lookup that
\* answered won) and has skipped a stale deal lost inside the window.
C8_Witness ==
    /\ dresult.returned /\ di = 2
    /\ \E i, j \in 1..Len(deals) :
          /\ InCategory(Returns("churned"), i)
          /\ [deal |-> i, answer |-> TRUE] \in lookups
          /\ StaleDeal(deals[j]) /\ LostInsideWindow(deals[j])

LostDealRule(i) ==
    LET d == deals[i]
    IN  IF ChurnInTitle(d)
        THEN /\ CountFor(churned, i) = 1
             /\ ~InCategory(lost_deals, i)
             /\ LookupsFor(i) = {}
        ELSE \E answer \in BOOLEAN :
                /\ LookupsFor(i) = {[deal |-> i, answer |-> answer]}
                /\ answer => (CountFor(churned, i) = 1 /\ ~InCategory(lost_deals, i))
                /\ ~answer => (CountFor(lost_deals, i) = 1 /\ ~InCategory(churned, i))

InAnyCategory(i) ==
    \/ PrecedenceCount(i) > 0
    \/ InCategory(upgrades, i) \/ InCategory(downgrades, i) \/ InCategory(new_trials, i)
    \/ ReturnedPrecedenceCount(i) > 0
    \/ InCategory(Returns("upgrades"), i) \/ InCategory(Returns("downgrades"), i)
    \/ InCategory(Returns("new_trials"), i)

\* C10: a deal whose update-time predates the window and whose status is
\* not open contributes to no category, the upgrades and downgrades of the
\* value-delta pass included, and is not looked up; an open deal that the
\* per-deal pass visits goes to to_convert however old its update-time, and
\* the mapping returned after the pass carries to_convert as the pass built it.
C10_StaleSkippedOpenKept ==
    /\ \A i \in 1..Len(deals) :
          StaleDeal(deals[i]) =>
              /\ ~InAnyCategory(i)
              /\ \A k \in 1..Len(filtered) : filtered[k] # i
              /\ LookupsFor(i) = {}
    /\ \A i \in 1..di :
          deals[i].status = "open" => CountFor(to_convert, i) = 1
    /\ (dresult.returned /\ di > 0) => Returns("to_convert") = to_convert

\* C10 witness: an open deal updated before the window was returned in
\* to_convert, and a won deal updated and won before the window was skipped.
C10_Witness ==
    /\ dresult.returned /\ di = 2
    /\ \E i, j \in 1..di :
          /\ deals[i].status = "open" /\ deals[i].update_time < WindowStart
          /\ InCategory(Returns("to_convert"), i)
          /\ deals[j].status = "won" /\ StaleDeal(deals[j])
          /\ deals[j].won_time # NoTime /\ deals[j].won_time < WindowStart

WonInsideWindow(d) ==
    d.status = "won" /\ d.won_time # NoTime /\ d.won_time >= WindowStart

TitleHas(d, w) == d.title.word = w

\* An entry that the per-deal pass made for deal i (the entries of the
\* value-delta pass carry its 'Upgrade' / 'Downgrade' text).
TitleEntry(cat, i) ==
    \E k \in 1..Len(cat) : cat[k].deal = i /\ cat[k].form \notin ValueChangeTexts

\* C12 (as claimed): a visited, non-stale deal with 'upgrade' in its title
\* (in any case) has an entry of the per-deal pass in upgrades, and one with
\* 'downgrade' has one in downgrades, whether its status is open, won or lost.
C12_TitleUpgradeAnyStatus ==
    \A i \in 1..di :
        (~StaleDeal(deals[i]) /\ deals[i].status \in {"open", "won", "lost"}) =>
            /\ TitleHas(deals[i], "upgrade") => TitleEntry(upgrades, i)
            /\ TitleHas(deals[i], "downgrade") => TitleEntry(downgrades, i)

\* C13 (as claimed): a visited deal with status open and 'trial' in its title
\* (in any case) has an entry in new_trials.
C13_OpenTrialInNewTrials ==
    \A i \in 1..di :
        (deals[i].status = "open" /\ TitleHas(deals[i], "trial")) =>
            InCategory(new_trials, i)

C16_FaultPolicy ==
    /\ dpc = "done" => dresult.returned
    /\ (dresult.returned /\ fetch_outcome = "ok") =>
          \A i \in 1..Len(deals) :
              deals[i].status = "open" => InCategory(Returns("to_convert"), i)

\* C17 (as claimed): whenever a mapping is returned by a call that has CRM
\* credentials, its new_organizations is what get_new_organizations makes
\* of the organizations request's answer, whatever the deal list and
\* however the deal request and the deal processing went.
C17_OrganizationsIndependent ==
    (dresult.returned /\ fetch_outcome # "nocred") =>
        Returns("new_organizations") = GetNewOrganizations(organizations)

(* ------------------------- total won value ---------------------------- *)

NoTotal == [returned |-> FALSE]

\* A deal of the CRM as calculate_total_won_value reads it: value is in half
\* currency units, and has_value says whether the deal carries the key.
CrmDeal(st, hv, v, w, u) ==
    [status |-> st, has_value |-> hv, value |-> v, won_time |-> w, update_time |-> u]

\* Won deals updated and won before the window, won before it and updated
\* inside it, and won inside it; an open and a lost deal.
CrmDealRecords ==
    {CrmDeal("won", TRUE, v, t[1], t[2]) :
        v \in 0..MaxValue,
        t \in {<<WindowStart - 1, WindowStart - 1>>, <<WindowStart - 1, WindowStart + 1>>,
               <<WindowStart + 1, WindowStart + 1>>}}
        \cup {CrmDeal("won", FALSE, 0, NoTime, WindowStart + 1)}
        \cup {CrmDeal(st, TRUE, MaxValue, NoTime, WindowStart + 1) : st \in {"open", "lost"}}

CrmDealLists(longest) == UNION { [1..n -> CrmDealRecords] : n \in 0..longest }

\* The CRM's answer to the request with 'status': 'won'.
WonDeals_InsideWindow(ds) ==
    SelectSeq(ds, LAMBDA d : d.status = "won" /\ InsideWindow(d.won_time))
WonDeals(ds) == SelectSeq(ds, LAMBDA d : d.status = "won")

\* deal.get("value", 0)
GetValue(d) == IF d.has_value THEN d.value ELSE 0

\* sum(deal.get("value", 0) for deal in won_deals if deal), in half units
RECURSIVE SumValues(_)
SumValues(ds) ==
    IF ds = <<>> THEN 0 ELSE GetValue(Head(ds)) + SumValues(Tail(ds))

\* round(total_value) of a number of half units: to the nearest integer,
\* a tie to the even one.
Round(h) ==
    LET q == h \div 2
    IN  IF h % 2 = 0 THEN q ELSE IF q % 2 = 0 THEN q ELSE q + 1

WonInit ==
    /\ crm_deals \in CrmDealLists(MaxDeals)
    /\ wpc = "start"
    /\ total_won_value = NoTotal

\* get_won_deals without credentials returns [].
WonNoCredentials ==
    /\ UNCHANGED wrest
    /\ wpc = "start"
    /\ total_won_value' = [returned |-> TRUE, value |-> Round(SumValues(<<>>)), source |-> "none"]
    /\ wpc' = "done"
    /\ UNCHANGED crm_deals

\* The request raised or the response says success = false: get_won_deals
\* returns [].
WonFetchFault ==
    /\ UNCHANGED wrest
    /\ wpc = "start"
    /\ total_won_value' = [returned |-> TRUE, value |-> Round(SumValues(<<>>)), source |-> "fault"]
    /\ wpc' = "done"
    /\ UNCHANGED crm_deals

\* get_won_deals returns the data of the response; the values are summed
\* and the sum is rounded.
CalculateTotalWonValue ==
    /\ UNCHANGED wrest
    /\ wpc = "start"
    /\ total_won_value' =
          [returned |-> TRUE, value |-> Round(SumValues(WonDeals(crm_deals))), source |-> "crm"]
    /\ wpc' = "done"
    /\ UNCHANGED crm_deals

(* -------------------- properties of total won value ------------------- *)

\* The sum of value over all deals of the CRM with status won, in half units.
RECURSIVE WonValueSum(_)
WonValueSum(n) ==
    IF n = 0 THEN 0
    ELSE WonValueSum(n - 1)
            + (IF crm_deals[n].status = "won" /\ crm_deals[n].has_value
               THEN crm_deals[n].value ELSE 0)

Chars == {"a", "*", "[", "]", "(", ")"}

Texts(longest) == UNION { [1..n -> Chars] : n \in 0..longest }

\* text[o] and text[a:b], with offsets that count from 0.
CharAt(s, o) == s[o + 1]
Slice(s, a, b) == SubSeq(s, a + 1, b)

\* The offset of the first c at or after offset o, or len(s) when there is none.
RECURSIVE Find(_, _, _)
Find(s, c, o) ==
    IF o >= Len(s) THEN Len(s)
    ELSE IF CharAt(s, o) = c THEN o
    ELSE Find(s, c, o + 1)

NoMatch == [matched |-> FALSE, start |-> 0, end |-> 0, group1 |-> <<>>, group2 |-> <<>>]
Match(a, b, g1, g2) ==
    [matched |-> TRUE, start |-> a, end |-> b, group1 |-> g1, group2 |-> g2]

\* r'\[([^\]]+)\]\(([^)]+)\)' matched at offset o
LinkAt(s, o) ==
    IF o < Len(s) /\ CharAt(s, o) = "["
    THEN LET q == Find(s, "]", o + 1)
         IN  IF q > o + 1 /\ q + 1 < Len(s) /\ CharAt(s, q + 1) = "("
             THEN LET r == Find(s, ")", q + 2)
                  IN  IF r > q + 2 /\ r < Len(s)
                      THEN Match(o, r + 1, Slice(s, o + 1, q), Slice(s, q + 2, r))
                      ELSE NoMatch
             ELSE NoMatch
    ELSE NoMatch

\* r'\*\*([^*]+)\*\*' matched at offset o
BoldAt(s, o) ==
    IF o + 1 < Len(s) /\ CharAt(s, o) = "*" /\ CharAt(s, o + 1) = "*"
    THEN LET q == Find(s, "*", o + 2)
         IN  IF q > o + 2 /\ q + 1 < Len(s) /\ CharAt(s, q + 1) = "*"
             THEN Match(o, q + 2, Slice(s, o + 2, q), <<>>)
             ELSE NoMatch
    ELSE NoMatch

\* r'\*([^*]+)\*' matched at offset o
ItalicAt(s, o) ==
    IF o < Len(s) /\ CharAt(s, o) = "*"
    THEN LET q == Find(s, "*", o + 1)
         IN  IF q > o + 1 /\ q < Len(s)
             THEN Match(o, q + 1, Slice(s, o + 1, q), <<>>)
             ELSE NoMatch
    ELSE NoMatch

\* The patterns list, in its order.
Patterns == <<"link", "bold", "italic">>

MatchAt(pattern_type, s, o) ==
    IF pattern_type = "link" THEN LinkAt(s, o)
    ELSE IF pattern_type = "bold" THEN BoldAt(s, o)
    ELSE ItalicAt(s, o)

\* re.search(pattern, text[current_pos:]), its offsets counted in text.
RECURSIVE Search(_, _, _)
Search(pattern_type, s, o) ==
    IF o >= Len(s) THEN NoMatch
    ELSE IF MatchAt(pattern_type, s, o).matched THEN MatchAt(pattern_type, s, o)
    ELSE Search(pattern_type, s, o + 1)

\* if match_start < next_pos
Nearer_Always(match_start, next_pos) == TRUE
Nearer(match_start, next_pos) == match_start < next_pos

\* The for loop over the patterns, from pattern k on.
RECURSIVE NextMatch(_, _, _, _)
NextMatch(s, pos, k, best) ==
    IF k > Len(Patterns) THEN best
    ELSE LET match == Search(Patterns[k], s, pos)
         IN  IF match.matched /\ Nearer(match.start, best.next_pos)
             THEN NextMatch(s, pos, k + 1,
                            [next_match |-> match, next_pattern_type |-> Patterns[k],
                             next_pos |-> match.start])
             ELSE NextMatch(s, pos, k + 1, best)

FindNext(s, pos) ==
    NextMatch(s, pos, 1,
              [next_match |-> NoMatch, next_pattern_type |-> "none", next_pos |-> Len(s)])

\* The runs: plain text, a link, bold text, italic text.
Run(content, link, url, bold, italic) ==
    [content |-> content, link |-> link, url |-> url, bold |-> bold, italic |-> italic]
TextRun(content) == Run(content, FALSE, <<>>, FALSE, FALSE)

PatternRun(pattern_type, match) ==
    IF pattern_type = "link" THEN Run(match.group1, TRUE, match.group2, FALSE, FALSE)
    ELSE IF pattern_type = "bold" THEN Run(match.group1, FALSE, <<>>, TRUE, FALSE)
    ELSE Run(match.group1, FALSE, <<>>, FALSE, TRUE)

\* current_pos = next_pos + len(next_match.group(0))
MatchEnd_NoAdvance(next_pos, match) == next_pos
MatchEnd_Group1(next_pos, match) == next_pos + Len(match.group1)
MatchEnd(next_pos, match) == next_pos + (match.end - match.start)

\* return rich_text if rich_text else [{"type": "text", "text": {"content": text}}]
Returned_Runs(s, runs) == IF runs # <<>> THEN runs ELSE <<TextRun(s)>>

NoRuns == <<[returned |-> FALSE]>>

Span(scan, from, upto) == [scan |-> scan, from |-> from, upto |-> upto]

ParseInit ==
    /\ text \in Texts(MaxText)
    /\ current_pos = 0
    /\ rich_text = <<>>
    /\ spans = <<>>
    /\ parsed = NoRuns
    /\ ppc = "scan"

\* The calls that are followed to their end.
ParseLiveInit ==
    /\ text \in Texts(MaxLiveText)
    /\ current_pos = 0
    /\ rich_text = <<>>
    /\ spans = <<>>
    /\ parsed = NoRuns
    /\ ppc = "scan"

\* One iteration of the while loop that finds a match: the text before the
\* match, then the match.
ParseMatch ==
    /\ UNCHANGED prest
    /\ ppc = "scan" /\ current_pos < Len(text)
    /\ LET found == FindNext(text, current_pos)
           next_end == MatchEnd(found.next_pos, found.next_match)
           before == IF found.next_pos > current_pos
                     THEN <<TextRun(Slice(text, current_pos, found.next_pos))>>
                     ELSE <<>>
           before_span == IF found.next_pos > current_pos
                          THEN <<Span(current_pos, current_pos, found.next_pos)>>
                          ELSE <<>>
       IN  /\ found.next_match.matched
           /\ rich_text' = rich_text \o before
                             \o <<PatternRun(found.next_pattern_type, found.next_match)>>
           /\ spans' = spans \o before_span \o <<Span(current_pos, found.next_pos, next_end)>>
           /\ current_pos' = next_end
    /\ UNCHANGED <<text, parsed, ppc>>

\* The iteration that finds no match: the remaining text, break, return.
ParseRest ==
    /\ UNCHANGED prest
    /\ ppc = "scan" /\ current_pos < Len(text)
    /\ ~FindNext(text, current_pos).next_match.matched
    /\ rich_text' = Append(rich_text, TextRun(Slice(text, current_pos, Len(text))))
    /\ spans' = Append(spans, Span(current_pos, current_pos, Len(text)))
    /\ parsed' = Returned_Runs(text, rich_text')
    /\ ppc' = "done"
    /\ UNCHANGED <<text, current_pos>>

\* The loop ends at the end of the text: return.
ParseReturn ==
    /\ UNCHANGED prest
    /\ ppc = "scan" /\ current_pos >= Len(text)
    /\ parsed' = Returned_Runs(text, rich_text)
    /\ spans' = IF rich_text # <<>> THEN spans ELSE <<Span(0, 0, Len(text))>>
    /\ ppc' = "done"
    /\ UNCHANGED <<text, current_pos, rich_text>>

(* ------------------- properties of the inline parser ------------------ *)

\* The spans of the three kinds of markup, said of the characters of s
\* between offsets a and b.
NoneIs(s, a, b, c) == \A o \in a..(b - 1) : CharAt(s, o) # c

IsLinkSpan(s, a, b, q) ==
    /\ 0 <= a /\ a + 1 < q /\ q + 2 < b - 1 /\ b <= Len(s)
    /\ CharAt(s, a) = "[" /\ CharAt(s, q) = "]"
    /\ CharAt(s, q + 1) = "(" /\ CharAt(s, b - 1) = ")"
    /\ NoneIs(s, a + 1, q, "]") /\ NoneIs(s, q + 2, b - 1, ")")

IsBoldSpan(s, a, b) ==
    /\ 0 <= a /\ a + 5 <= b /\ b <= Len(s)
    /\ CharAt(s, a) = "*" /\ CharAt(s, a + 1) = "*"
    /\ CharAt(s, b - 2) = "*" /\ CharAt(s, b - 1) = "*"
    /\ NoneIs(s, a + 2, b - 2, "*")

IsItalicSpan(s, a, b) ==
    /\ 0 <= a /\ a + 3 <= b /\ b <= Len(s)
    /\ CharAt(s, a) = "*" /\ CharAt(s, b - 1) = "*"
    /\ NoneIs(s, a + 1, b - 1, "*")

LinkStartsAt(s, a) ==
    /\ a < Len(s) /\ CharAt(s, a) = "["
    /\ \E q \in (a + 2)..Len(s) : \E b \in (q + 4)..Len(s) : IsLinkSpan(s, a, b, q)
BoldStartsAt(s, a) ==
    /\ a < Len(s) /\ CharAt(s, a) = "*"
    /\ \E b \in (a + 5)..Len(s) : IsBoldSpan(s, a, b)
ItalicStartsAt(s, a) ==
    /\ a < Len(s) /\ CharAt(s, a) = "*"
    /\ \E b \in (a + 3)..Len(s) : IsItalicSpan(s, a, b)
MarkupStartsAt(s, a) == LinkStartsAt(s, a) \/ BoldStartsAt(s, a) \/ ItalicStartsAt(s, a)

IsPlain(run) == ~run.link /\ ~run.bold /\ ~run.italic

\* The run is of exactly one kind and says what the span between a and b holds.
RunIsSpan(run, s, a, b) ==
    IF run.link
    THEN /\ ~run.bold /\ ~run.italic
         /\ \E q \in 0..Len(s) :
               /\ IsLinkSpan(s, a, b, q)
               /\ run.content = Slice(s, a + 1, q) /\ run.url = Slice(s, q + 2, b - 1)
    ELSE IF run.bold
    THEN ~run.italic /\ IsBoldSpan(s, a, b) /\ run.content = Slice(s, a + 2, b - 2)
    ELSE IF run.italic
    THEN IsItalicSpan(s, a, b) /\ run.content = Slice(s, a + 1, b - 1)
    ELSE run.content = Slice(s, a, b)

\* The offsets at which an iteration of the loop stood.
ScanPositions == {spans[k].scan : k \in 1..Len(rich_text)}

\* C18: at every scan position the match with the smallest start offset was
\* taken (a link before a bold before an italic span on equal offsets), the
\* text before it went to one plain run, and when the nearest markup is a
\* span **x** with x free of asterisks the iteration made exactly one run for
\* it, bold with content x, and no italic run.
C18_NearestMatchBoldFirst ==
    /\ \A k \in 1..Len(rich_text) :
          LET run == rich_text[k]
              sp == spans[k]
          IN  /\ RunIsSpan(run, text, sp.from, sp.upto)
              /\ ~IsPlain(run) =>
                    /\ \A a \in sp.scan..(sp.from - 1) : ~MarkupStartsAt(text, a)
                    /\ run.bold => ~LinkStartsAt(text, sp.from)
                    /\ run.italic =>
                          (~LinkStartsAt(text, sp.from) /\ ~BoldStartsAt(text, sp.from))
                    /\ IF sp.from > sp.scan
                       THEN /\ k > 1 /\ IsPlain(rich_text[k - 1])
                            /\ spans[k - 1] = Span(sp.scan, sp.scan, sp.from)
                       ELSE k = 1 \/ spans[k - 1].scan # sp.scan
    /\ \A c \in ScanPositions :
          \A a \in c..Len(text), b \in c..Len(text) :
              (IsBoldSpan(text, a, b) /\ \A o \in c..(a - 1) : ~MarkupStartsAt(text, o)) =>
                  /\ \E k \in 1..Len(rich_text) :
                        /\ spans[k] = Span(c, a, b)
                        /\ rich_text[k] = Run(Slice(text, a + 2, b - 2), FALSE, <<>>, TRUE, FALSE)
                  /\ \A k \in 1..Len(rich_text) :
                        spans[k].scan = c =>
                            /\ ~rich_text[k].italic /\ ~rich_text[k].link
                            /\ rich_text[k].bold => spans[k] = Span(c, a, b)

\* C18 witness: the parse of a text with a span **a** found a letter before
\* the span and made a plain run and then one bold run.
C18_Witness ==
    /\ ppc = "done" /\ parsed = rich_text
    /\ \E k \in 2..Len(rich_text) :
          /\ rich_text[k].bold /\ spans[k].from > spans[k].scan
          /\ IsBoldSpan(text, spans[k].from, spans[k].upto)
          /\ IsPlain(rich_text[k - 1])
    /\ \A k \in 1..Len(rich_text) : ~rich_text[k].italic

RECURSIVE Concat(_)
Concat(ss) == IF ss = <<>> THEN <<>> ELSE Head(ss) \o Concat(Tail(ss))

\* What the span of run k leaves when its delimiters are taken away.
Undelimited(k) ==
    LET run == parsed[k]
        sp == spans[k]
    IN  IF run.link THEN Slice(text, sp.from + 1, sp.upto - 3 - Len(run.url))
        ELSE IF run.bold THEN Slice(text, sp.from + 2, sp.upto - 2)
        ELSE IF run.italic THEN Slice(text, sp.from + 1, sp.upto - 1)
        ELSE Slice(text, sp.from, sp.upto)

\* C19: the returned runs cover the text from its first to its last
\* character without gap or overlap, a plain run holding its piece of the
\* text and a link, bold or italic run holding its span without the
\* delimiters (the link its link text), so that the contents concatenated
\* in order are the text with the delimiters of the matched spans removed;
\* a text with no match, the empty text included, returns one plain run
\* holding the text.
C19_RunsReproduceText ==
    ppc = "done" =>
        /\ Len(parsed) >= 1 /\ Len(spans) = Len(parsed)
        /\ spans[1].from = 0 /\ spans[Len(spans)].upto = Len(text)
        /\ \A k \in 1..(Len(spans) - 1) : spans[k + 1].from = spans[k].upto
        /\ \A k \in 1..Len(parsed) : RunIsSpan(parsed[k], text, spans[k].from, spans[k].upto)
        /\ Concat([k \in 1..Len(parsed) |-> parsed[k].content])
              = Concat([k \in 1..Len(parsed) |-> Undelimited(k)])
        /\ (\A a \in 0..Len(text) : ~MarkupStartsAt(text, a)) => parsed = <<TextRun(text)>>

\* C19 witness: a text returned as a plain run, an italic run and a plain
\* run, the asterisks of the span being in no content.
C19_Witness ==
    /\ ppc = "done" /\ Len(parsed) = 3
    /\ IsPlain(parsed[1]) /\ parsed[2].italic /\ IsPlain(parsed[3])
    /\ Len(Concat([k \in 1..Len(parsed) |-> parsed[k].content])) = Len(text) - 2

(* ----------------------- convert_markdown_to_blocks ------------------- *)

\* str.strip() takes whitespace away, \d is a digit: one of each kind, two digits.
Whitespace == {" "}
Digits == {"1", "2"}

\* The backquote of a code fence, written as a tilde: a string of this
\* language cannot hold a backquote.
Backtick == "~"

\* parse_rich_text_with_links(s) as one call: the while loop from pos on.
RECURSIVE ParseLoop(_, _, _)
ParseLoop(s, pos, runs) ==
    IF pos >= Len(s) THEN runs
    ELSE LET found == FindNext(s, pos)
         IN  IF ~found.next_match.matched
             THEN Append(runs, TextRun(Slice(s, pos, Len(s))))
             ELSE ParseLoop(s, MatchEnd(found.next_pos, found.next_match),
                            (IF found.next_pos > pos
                             THEN Append(runs, TextRun(Slice(s, pos, found.next_pos)))
                             ELSE runs)
                               \o <<PatternRun(found.next_pattern_type, found.next_match)>>)

ParseRichTextWithLinks(s) == Returned_Runs(s, ParseLoop(s, 0, <<>>))

\* markdown.split('\n')
RECURSIVE Split(_)
Split(s) ==
    LET nl == Find(s, "\n", 0)
    IN  IF nl = Len(s) THEN <<s>>
        ELSE <<Slice(s, 0, nl)>> \o Split(Slice(s, nl + 1, Len(s)))

RECURSIVE LStrip(_, _)
LStrip(s, cs) == IF s # <<>> /\ Head(s) \in cs THEN LStrip(Tail(s), cs) ELSE s

RECURSIVE RStrip(_, _)
RStrip(s, cs) ==
    IF s # <<>> /\ s[Len(s)] \in cs THEN RStrip(SubSeq(s, 1, Len(s) - 1), cs) ELSE s

\* line.strip()
Strip(s) == RStrip(LStrip(s, Whitespace), Whitespace)

StartsWith(s, prefix) == Len(s) >= Len(prefix) /\ SubSeq(s, 1, Len(prefix)) = prefix

\* if not line.strip(): continue
IsBlank_EmptyOnly(line) == line = <<>>
IsBlank(line) == Strip(line) = <<>>

\* len(re.match('^#+', line).group())
HeadingLevel(line) == Len(line) - Len(LStrip(line, {"#"}))

\* re.sub(r'\*\*|\*|\[([^\]]+)\]\(([^)]+)\)', group 1 or '', content), from offset o on
RECURSIVE StripFormatting(_, _)
StripFormatting(s, o) ==
    IF o >= Len(s) THEN <<>>
    ELSE IF CharAt(s, o) = "*" THEN StripFormatting(s, o + 1)
    ELSE IF LinkAt(s, o).matched
    THEN LinkAt(s, o).group1 \o StripFormatting(s, LinkAt(s, o).end)
    ELSE <<CharAt(s, o)>> \o StripFormatting(s, o + 1)

HeadingContent(line) == StripFormatting(Strip(LStrip(line, {"#"})), 0)

\* f"heading_{min(level, 3)}"
HeadingType(level) ==
    IF level = 1 THEN "heading_1" ELSE IF level = 2 THEN "heading_2" ELSE "heading_3"

\* re.match(r'^\d+\.\s+(.+)$', line.strip()): digits, a dot, whitespace, the
\* rest; the whitespace gives its last character to the rest when nothing
\* else is left for it.
NumberedMatch(stripped) ==
    LET after_digits == LStrip(stripped, Digits)
        after_dot == IF after_digits = <<>> THEN <<>> ELSE Tail(after_digits)
        rest == LStrip(after_dot, Whitespace)
        spaces == Len(after_dot) - Len(rest)
    IN  IF /\ Len(after_digits) < Len(stripped)
           /\ after_digits # <<>> /\ Head(after_digits) = "."
           /\ spaces >= 1 /\ (rest # <<>> \/ spaces >= 2)
        THEN [matched |-> TRUE,
              group1 |-> IF rest # <<>> THEN rest ELSE <<after_dot[Len(after_dot)]>>]
        ELSE [matched |-> FALSE, group1 |-> <<>>]

Block(type, runs) == [type |-> type, rich_text |-> runs]

IsHeading(line) == StartsWith(line, <<"#">>)
IsBullet(line) == StartsWith(Strip(line), <<"-", " ">>)
IsNumbered(line) == NumberedMatch(Strip(line)).matched
IsCode(line) == StartsWith(Strip(line), <<Backtick, Backtick, Backtick>>)

\* The lines the documents are made of.
LineSamples ==
    { <<>>, <<" ">>, <<"a">>, <<" ", "a">>, <<"*", "a", "*">>,
      <<"#", " ", "a">>, <<"#", "#", "#", "#", "a">>, <<"#">>,
      <<"#", "#", " ", "*", "a", "*">>, <<" ", "#">>,
      <<"#", "[", "a", "]", "(", "a", ")">>,
      <<"-", " ", "a">>, <<" ", "-", " ", "*", "*", "a", "*", "*">>, <<"-", "a">>,
      <<"1", ".", " ", "a">>, <<"1", "2", ".", " ", " ", "a">>, <<"1", ".", "a">>,
      <<Backtick, Backtick, Backtick>>, <<" ", Backtick, Backtick, Backtick, "a", " ">> }

RECURSIVE Join(_)
Join(ls) ==
    IF Len(ls) = 1 THEN ls[1] ELSE ls[1] \o <<"\n">> \o Join(Tail(ls))

Markdowns(longest) ==
    { Join(ls) : ls \in UNION { [1..n -> LineSamples] : n \in 1..longest } }

BlocksInit ==
    /\ markdown \in Markdowns(MaxLines)
    /\ lines = <<>>
    /\ li = 0
    /\ blocks = <<>>
    /\ sources = <<>>
    /\ bpc = "split"

\* lines = markdown.split('\n')
SplitLines ==
    /\ UNCHANGED brest
    /\ bpc = "split"
    /\ lines' = Split(markdown)
    /\ bpc' = "loop"
    /\ UNCHANGED <<markdown, li, blocks, sources>>

\* blocks.append(...) for the line the loop stands at
AppendBlock(block) ==
    /\ blocks' = Append(blocks, block)
    /\ sources' = Append(sources, li + 1)
    /\ li' = li + 1
    /\ UNCHANGED <<markdown, lines, bpc>>

\* The iterations of the for loop, one action for each way through the body.
BlankLine ==
    /\ UNCHANGED brest
    /\ bpc = "loop" /\ li < Len(lines)
    /\ IsBlank(lines[li + 1])
    /\ li' = li + 1
    /\ UNCHANGED <<markdown, lines, blocks, sources, bpc>>

HeadingLine ==
    /\ UNCHANGED brest
    /\ bpc = "loop" /\ li < Len(lines)
    /\ LET line == lines[li + 1]
       IN  /\ ~IsBlank(line)
           /\ IsHeading(line)
           /\ AppendBlock(Block(HeadingType(HeadingLevel(line)),
                                <<TextRun(HeadingContent(line))>>))

BulletLine ==
    /\ UNCHANGED brest
    /\ bpc = "loop" /\ li < Len(lines)
    /\ LET line == lines[li + 1]
       IN  /\ ~IsBlank(line) /\ ~IsHeading(line)
           /\ IsBullet(line)
           /\ AppendBlock(Block("bulleted_list_item",
                                ParseRichTextWithLinks(Slice(Strip(line), 2, Len(Strip(line))))))

NumberedLine ==
    /\ UNCHANGED brest
    /\ bpc = "loop" /\ li < Len(lines)
    /\ LET line == lines[li + 1]
       IN  /\ ~IsBlank(line) /\ ~IsHeading(line) /\ ~IsBullet(line)
           /\ IsNumbered(line)
           /\ AppendBlock(Block("numbered_list_item",
                                ParseRichTextWithLinks(NumberedMatch(Strip(line)).group1)))

CodeLine ==
    /\ UNCHANGED brest
    /\ bpc = "loop" /\ li < Len(lines)
    /\ LET line == lines[li + 1]
       IN  /\ ~IsBlank(line) /\ ~IsHeading(line) /\ ~IsBullet(line) /\ ~IsNumbered(line)
           /\ IsCode(line)
           /\ AppendBlock(Block("code",
                                <<TextRun(Slice(Strip(line), 3, Len(Strip(line))))>>))

ParagraphLine ==
    /\ UNCHANGED brest
    /\ bpc = "loop" /\ li < Len(lines)
    /\ LET line == lines[li + 1]
       IN  /\ ~IsBlank(line) /\ ~IsHeading(line) /\ ~IsBullet(line) /\ ~IsNumbered(line)
           /\ ~IsCode(line)
           /\ AppendBlock(Block("paragraph", ParseRichTextWithLinks(line)))

\* return blocks
ReturnBlocks ==
    /\ UNCHANGED brest
    /\ bpc = "loop" /\ li = Len(lines)
    /\ bpc' = "done"
    /\ UNCHANGED <<markdown, lines, li, blocks, sources>>

(* ------------------ properties of the block compiler ------------------ *)

\* The source lines of a document, said of its characters: line i holds the
\* characters that have i - 1 line breaks before them.
BreaksBefore(md, p) == Cardinality({o \in 1..(p - 1) : md[o] = "\n"})
SourceLineCount(md) == BreaksBefore(md, Len(md) + 1) + 1
SourceLine(md, i) ==
    LET ps == {p \in 1..Len(md) : md[p] # "\n" /\ BreaksBefore(md, p) = i - 1}
    IN  IF ps = {} THEN <<>>
        ELSE SubSeq(md, CHOOSE p \in ps : \A q \in ps : p <= q,
                        CHOOSE p \in ps : \A q \in ps : p >= q)

OnlyWhitespace(l) == \A o \in 1..Len(l) : l[o] \in Whitespace
NonBlankSourceLines(md) ==
    {i \in 1..SourceLineCount(md) : ~OnlyWhitespace(SourceLine(md, i))}

\* A line from its first to its last character that is not whitespace.
Ink(l) ==
    LET ps == {p \in 1..Len(l) : l[p] \notin Whitespace}
    IN  IF ps = {} THEN <<>>
        ELSE SubSeq(l, CHOOSE p \in ps : \A q \in ps : p <= q,
                       CHOOSE p \in ps : \A q \in ps : p >= q)

LeadingHashes(l) ==
    CHOOSE n \in 0..Len(l) :
        (\A o \in 1..n : l[o] = "#") /\ (n = Len(l) \/ l[n + 1] # "#")

IsFenceLine(l) ==
    LET ink == Ink(l)
    IN  Len(ink) >= 3 /\ \A o \in 1..3 : ink[o] = Backtick

IsNumberedLine(l) ==
    LET ink == Ink(l)
    IN  \E d \in 1..Len(ink), w \in 1..Len(ink) :
            /\ d + 1 + w < Len(ink)
            /\ \A o \in 1..d : ink[o] \in Digits
            /\ ink[d + 1] = "."
            /\ \A o \in (d + 2)..(d + 1 + w) : ink[o] \in Whitespace

\* The type of the block of a line, from the form of the line alone.
TypeOfLine(l) ==
    IF LeadingHashes(l) >= 3 THEN "heading_3"
    ELSE IF LeadingHashes(l) = 2 THEN "heading_2"
    ELSE IF LeadingHashes(l) = 1 THEN "heading_1"
    ELSE IF Len(Ink(l)) >= 2 /\ Ink(l)[1] = "-" /\ Ink(l)[2] = " " THEN "bulleted_list_item"
    ELSE IF IsNumberedLine(l) THEN "numbered_list_item"
    ELSE IF IsFenceLine(l) THEN "code"
    ELSE "paragraph"

\* C20: the returned blocks are one for each non-blank source line and none
\* for a blank one, in the order of the lines; every block has the type that
\* its own line asks for, also when a code fence line precedes it, a
\* paragraph holding the inline runs of its line; the block of a fence line
\* is a code block that holds the text after the marker on that line and
\* nothing of another line.
C20_OneBlockPerNonBlankLine ==
    bpc = "done" =>
        LET nonblank == NonBlankSourceLines(markdown)
        IN  /\ Len(blocks) = Cardinality(nonblank) /\ Len(sources) = Len(blocks)
            /\ \A k \in 1..Len(blocks) : sources[k] \in nonblank
            /\ \A k \in 1..(Len(blocks) - 1) : sources[k] < sources[k + 1]
            /\ \A k \in 1..Len(blocks) :
                  LET l == SourceLine(markdown, sources[k])
                  IN  /\ blocks[k].type = TypeOfLine(l)
                      /\ blocks[k].type = "paragraph" =>
                            blocks[k].rich_text = ParseRichTextWithLinks(l)
                      /\ IsFenceLine(l) =>
                            /\ blocks[k].type = "code"
                            /\ blocks[k].rich_text
                                  = <<TextRun(SubSeq(Ink(l), 4, Len(Ink(l))))>>

\* C20 witness: a document of a fence line with text after the marker, a
\* blank line and a line of text was compiled to a code block and a block of
\* the third line.
C20_Witness ==
    /\ bpc = "done" /\ Len(lines) = 3 /\ Len(blocks) = 2
    /\ IsFenceLine(lines[1]) /\ blocks[1].type = "code"
    /\ blocks[1].rich_text[1].content # <<>>
    /\ lines[2] # <<>> /\ OnlyWhitespace(lines[2])
    /\ sources = <<1, 3>> /\ blocks[2].type # "code"

(* ------------------------- summary operations ------------------------- *)

\* The texts the operations return without asking the oracle.
GuildNoActivity ==
    <<"# Discord Server Summary\n\nNo activity in this server during the specified period.">>
ThreadNoActivity == <<"No activity in this thread during the specified period.">>

\* f"# Error Generating Summary\n\nThere was an error generating the summary: {str(e)}"
GuildErrorText(e) ==
    <<"# Error Generating Summary\n\nThere was an error generating the summary: ", e>>

\* f"Error generating summary: {str(e)}"
ThreadErrorText(e) == <<"Error generating summary: ", e>>

\* What the oracle answers, and the faults of the oracle and of the CRM.
OracleTexts == {<<"summary a">>, <<"summary b">>}
OracleFaults == {"rate limit", "timeout"}
ValueFault == "unsupported operand type(s)"
SnapshotFaults == {"no such file", "not json"}

NoSummary == [returned |-> FALSE]
ReturnedValue(value) == [returned |-> TRUE, value |-> value]

\* Collections of up to longest messages, a message being its id.
MessageLists(longest) == { [i \in 1..n |-> i] : n \in 0..longest }

\* if not all_messages / if not messages
NoMessages_Never(ms) == FALSE
NoMessages(ms) == ms = <<>>

SummaryInit ==
    /\ operation \in {"guild", "thread", "load"}
    /\ all_messages \in MessageLists(MaxMessages)
    /\ spc = "start"
    /\ prompt = <<>>
    /\ summary = NoSummary
    /\ oracle_calls = 0
    /\ crm_calls = 0
    /\ process = "running"

\* generate_guild_summary: no messages.
GuildEmpty ==
    /\ UNCHANGED srest
    /\ operation = "guild" /\ spc = "start"
    /\ NoMessages(all_messages)
    /\ summary' = ReturnedValue(GuildNoActivity)
    /\ spc' = "done"
    /\ UNCHANGED <<operation, all_messages, prompt, oracle_calls, crm_calls, process>>

\* pipedrive_deals = fetch_recent_pipedrive_deals(): a mapping in every
\* case, with some category filled or with none.
GuildFetchDeals ==
    /\ UNCHANGED srest
    /\ operation = "guild" /\ spc = "start"
    /\ ~NoMessages(all_messages)
    /\ \E any_deals \in BOOLEAN :
          prompt' = <<[messages |-> Len(all_messages), deals |-> any_deals]>>
    /\ crm_calls' = crm_calls + 1
    /\ spc' = "mrr"
    /\ UNCHANGED <<operation, all_messages, summary, oracle_calls, process>>

\* mrr = calculate_total_won_value()
GuildTotalWon ==
    /\ UNCHANGED srest
    /\ operation = "guild" /\ spc = "mrr"
    /\ \E mrr \in 0..MaxValue : prompt' = Append(prompt, [mrr |-> mrr])
    /\ crm_calls' = crm_calls + 1
    /\ spc' = "oracle"
    /\ UNCHANGED <<operation, all_messages, summary, oracle_calls, process>>

\* calculate_total_won_value() raises on a won deal whose value is null;
\* the except clause of generate_guild_summary returns the error text.
GuildTotalWonFault ==
    /\ UNCHANGED srest
    /\ operation = "guild" /\ spc = "mrr"
    /\ crm_calls' = crm_calls + 1
    /\ summary' = ReturnedValue(GuildErrorText(ValueFault))
    /\ spc' = "done"
    /\ UNCHANGED <<operation, all_messages, prompt, oracle_calls, process>>

\* response = openai_client.chat.completions.create(...); return its text
GuildOracle ==
    /\ UNCHANGED srest
    /\ operation = "guild" /\ spc = "oracle"
    /\ oracle_calls' = oracle_calls + 1
    /\ \E answer \in OracleTexts : summary' = ReturnedValue(answer)
    /\ spc' = "done"
    /\ UNCHANGED <<operation, all_messages, prompt, crm_calls, process>>

\* The oracle call raises: except Exception as e, return the error text.
GuildOracleFault ==
    /\ UNCHANGED srest
    /\ operation = "guild" /\ spc = "oracle"
    /\ oracle_calls' = oracle_calls + 1
    /\ \E e \in OracleFaults : summary' = ReturnedValue(GuildErrorText(e))
    /\ spc' = "done"
    /\ UNCHANGED <<operation, all_messages, prompt, crm_calls, process>>

\* generate_thread_summary: no messages.
ThreadEmpty ==
    /\ UNCHANGED srest
    /\ operation = "thread" /\ spc = "start"
    /\ NoMessages(all_messages)
    /\ summary' = ReturnedValue(ThreadNoActivity)
    /\ spc' = "done"
    /\ UNCHANGED <<operation, all_messages, prompt, oracle_calls, crm_calls, process>>

\* generate_thread_summary: the messages are formatted and given to the oracle.
ThreadOracle ==
    /\ UNCHANGED srest
    /\ operation = "thread" /\ spc = "start"
    /\ ~NoMessages(all_messages)
    /\ prompt' = <<[messages |-> Len(all_messages)]>>
    /\ oracle_calls' = oracle_calls + 1
    /\ \E answer \in OracleTexts : summary' = ReturnedValue(answer)
    /\ spc' = "done"
    /\ UNCHANGED <<operation, all_messages, crm_calls, process>>

ThreadOracleFault ==
    /\ UNCHANGED srest
    /\ operation = "thread" /\ spc = "start"
    /\ ~NoMessages(all_messages)
    /\ prompt' = <<[messages |-> Len(all_messages)]>>
    /\ oracle_calls' = oracle_calls + 1
    /\ \E e \in OracleFaults : summary' = ReturnedValue(ThreadErrorText(e))
    /\ spc' = "done"
    /\ UNCHANGED <<operation, all_messages, crm_calls, process>>

\* load_data_from_file: the snapshot is read and returned, its messages
\* being the collection.
LoadData ==
    /\ UNCHANGED srest
    /\ operation = "load" /\ spc = "start"
    /\ summary' = ReturnedValue(<<[messages |-> all_messages]>>)
    /\ spc' = "done"
    /\ UNCHANGED <<operation, all_messages, prompt, oracle_calls, crm_calls, process>>

\* load_data_from_file: open or json.load or MessageData(**msg) raises;
\* except Exception: print, sys.exit(1).
LoadFault ==
    /\ UNCHANGED srest
    /\ operation = "load" /\ spc = "start"
    /\ \E e \in SnapshotFaults : prompt' = <<[fault |-> e]>>
    /\ process' = "exited"
    /\ spc' = "exit"
    /\ UNCHANGED <<operation, all_messages, summary, oracle_calls, crm_calls>>

(* ---------------- properties of the summary operations ---------------- *)

\* C21: generate_guild_summary given an empty collection returns the fixed
\* no-activity text of the server and has called neither the oracle nor the
\* CRM; generate_thread_summary given an empty collection returns the fixed
\* no-activity text of the thread and has not called the oracle.
C21_EmptyCollectionFixedText ==
    (spc = "done" /\ all_messages = <<>>) =>
        /\ operation = "guild" =>
              /\ summary = ReturnedValue(GuildNoActivity)
              /\ oracle_calls = 0 /\ crm_calls = 0
        /\ operation = "thread" =>
              /\ summary = ReturnedValue(ThreadNoActivity)
              /\ oracle_calls = 0

\* C21 witness: generate_guild_summary has returned for an empty collection.
C21_Witness ==
    /\ operation = "guild" /\ spc = "done" /\ all_messages = <<>>
    /\ summary.returned /\ summary.value = GuildNoActivity

\* C23: every public operation that has ended has returned a value to its
\* caller and the process still runs, whatever fault a collaborator gave: an
\* oracle fault is returned as the error text of the operation and a fault
\* while loading a snapshot is returned as a value.
C23_EveryOperationReturns ==
    spc \in {"done", "exit"} =>
        /\ process = "running"
        /\ summary.returned
        /\ (oracle_calls > 0 /\ summary.value \notin OracleTexts) =>
              \E e \in OracleFaults :
                  summary.value = IF operation = "guild" THEN GuildErrorText(e)
                                  ELSE ThreadErrorText(e)

\* The two summary operations on their own: a fault of the oracle, or of the
\* CRM while the prompt is gathered, ends generate_guild_summary and
\* generate_thread_summary with a returned text.
SummariesAlwaysReturn ==
    (spc \in {"done", "exit"} /\ operation \in {"guild", "thread"}) =>
        process = "running" /\ summary.returned

(* ------------------------ the window of one run ----------------------- *)

\* The window tests of one run of the bot, in the order of the program:
\* fetch_messages_from_past for a channel, is_thread_recent in
\* process_channel and again in process_thread, fetch_messages_from_past
\* for the thread, then in generate_guild_summary the date of
\* fetch_recent_pipedrive_deals, filter_deals_with_value_change,
\* get_deal_value_change and get_new_organizations.
WindowTests ==
    <<"message cutoff", "thread recency", "thread recency", "message cutoff",
      "deal date", "value filter", "value change", "organization add time">>

\* The instant at which a run starts: late enough for a window before it.
RunStart == (DAYS_TO_LOOK_BACK + 1) * TicksPerDay

\* datetime.now(timezone.utc) - timedelta(days=days), an instant
UtcWindowStart(now) == now - DAYS_TO_LOOK_BACK * TicksPerDay

\* (datetime.now() - timedelta(days=DAYS_TO_LOOK_BACK)).strftime('%Y-%m-%d'):
\* a day of local time, here as the UTC instant at which that day starts.
LocalDay(now, offset) == (now + offset) \div TicksPerDay
LocalDateWindowStart(now, offset) ==
    (LocalDay(now, offset) - DAYS_TO_LOOK_BACK) * TicksPerDay - offset

\* The window start that a test of the given kind computes from the clock.
WindowStartOf(test, now, offset) ==
    IF test = "deal date" THEN LocalDateWindowStart(now, offset)
    ELSE UtcWindowStart(now)

RunInit ==
    /\ clock = RunStart
    /\ utc_offset \in 0..(TicksPerDay - 1)
    /\ rpc = 0
    /\ window_tests = <<>>

\* Time passes between two statements of the run.
Tick ==
    /\ UNCHANGED rrest
    /\ clock < RunStart + MaxElapsed
    /\ clock' = clock + 1
    /\ UNCHANGED <<utc_offset, rpc, window_tests>>

\* The next window test of the run reads the clock and computes its window.
ReadClock(test) ==
    /\ UNCHANGED rrest
    /\ rpc < Len(WindowTests) /\ WindowTests[rpc + 1] = test
    /\ window_tests' = Append(window_tests,
                              [test |-> test, now |-> clock,
                               start |-> WindowStartOf(test, clock, utc_offset)])
    /\ rpc' = rpc + 1
    /\ UNCHANGED <<clock, utc_offset>>

MessageCutoff == ReadClock("message cutoff")
ThreadRecency == ReadClock("thread recency")
DealDate == ReadClock("deal date")
ValueFilterStart == ReadClock("value filter")
ValueChangeStart == ReadClock("value change")
OrganizationAddTime == ReadClock("organization add time")

(* ----------------- properties of the window of one run ---------------- *)

\* C22: all window tests of a run read the same now and compare against the
\* same window start.
C22_OneNowOneWindow ==
    \A i \in 1..Len(window_tests), j \in 1..Len(window_tests) :
        /\ window_tests[i].now = window_tests[j].now
        /\ window_tests[i].start = window_tests[j].start

\* What remains when the clock stands still during the run: the tests that
\* compute an instant of UTC agree with each other.
FrozenClockUtcTestsAgree ==
    clock = RunStart =>
        \A i \in 1..Len(window_tests), j \in 1..Len(window_tests) :
            (window_tests[i].test # "deal date" /\ window_tests[j].test # "deal date") =>
                window_tests[i].start = window_tests[j].start

(* ------------------ process_channel and process_thread ---------------- *)

NoThread == [id |-> 0, created_at |-> NoTime]
\* In the list of harvests, the channel itself.
ChannelSource == 0

NoChannel == [kind |-> "none", ignored |-> FALSE, threads |-> <<>>, archived |-> <<>>]

\* The creation instants of the threads: none (created_at is None), and
\* around the instant that is DAYS_TO_LOOK_BACK days before the run starts.
ThreadTimes ==
    {NoTime} \cup (UtcWindowStart(RunStart) - 1)..(UtcWindowStart(RunStart) + 1)

\* Lists of up to longest threads with the ids first, first + 1, ...
ThreadLists(first, longest) ==
    UNION { { [i \in 1..n |-> [id |-> first + i - 1, created_at |-> ts[i]]] :
                ts \in [1..n -> ThreadTimes] } : n \in 0..longest }

\* The channels on_ready hands to process_channel.
Channels(longest) ==
    { [kind |-> k, ignored |-> g, threads |-> a, archived |-> r] :
        k \in {"text", "voice", "forum"}, g \in BOOLEAN,
        a \in ThreadLists(1, longest), r \in ThreadLists(longest + 1, longest) }

\* hasattr(channel, 'threads'): text and forum channels have threads.
HasThreads(c) == c.kind \in {"text", "forum"}

\* isinstance(channel, discord.ForumChannel)
IsForum(c) == c.kind = "forum"

\* channel.archived_threads(limit=20) and (limit=100)
ArchivedLimit == 20
ForumArchivedLimit == 100
ArchivedThreads(c, limit) ==
    SubSeq(c.archived, 1, IF Len(c.archived) < limit THEN Len(c.archived) ELSE limit)

\* is_thread_recent(thread, days), the clock showing now
IsThreadRecent(thread, now) ==
    thread.created_at # NoTime /\ thread.created_at > UtcWindowStart(now)

\* The threads of the loop that process_channel stands in.
LoopThreads(c, phase) ==
    IF phase \in {"active", "forum active"} THEN c.threads
    ELSE IF phase = "archived" THEN ArchivedThreads(c, ArchivedLimit)
    ELSE IF phase = "forum archived" THEN ArchivedThreads(c, ForumArchivedLimit)
    ELSE <<>>

ThreadPhases == {"active", "archived", "forum active", "forum archived"}

\* The statement after the given one.
AfterPhase(c, phase) ==
    IF phase = "start" THEN (IF HasThreads(c) THEN "active"
                             ELSE IF IsForum(c) THEN "forum active" ELSE "done")
    ELSE IF phase = "active" THEN "archived"
    ELSE IF phase = "archived" THEN (IF IsForum(c) THEN "forum active" ELSE "done")
    ELSE IF phase = "forum active" THEN "forum archived"
    ELSE "done"

ThreadTest(thread, now, place, recent) ==
    [thread |-> thread, now |-> now, place |-> place, recent |-> recent]

\* thread_summaries[thread_key] = summary
SetSummary(summaries, key, value) ==
    IF \E k \in 1..Len(summaries) : summaries[k].key = key
    THEN [k \in 1..Len(summaries) |->
             IF summaries[k].key = key THEN [key |-> key, summary |-> value]
             ELSE summaries[k]]
    ELSE Append(summaries, [key |-> key, summary |-> value])

ChannelInit ==
    /\ channel \in Channels(MaxThreads)
    /\ cphase = "start"
    /\ ci = 0
    /\ pending = NoThread
    /\ ctime = RunStart
    /\ harvests = <<>>
    /\ summarized = <<>>
    /\ thread_summaries = <<>>
    /\ collected = <<>>
    /\ thread_tests = <<>>

\* Time passes while a request is awaited.
ChannelTick ==
    /\ UNCHANGED crest
    /\ cphase # "done" /\ ctime < RunStart + MaxElapsed
    /\ ctime' = ctime + 1
    /\ UNCHANGED <<channel, cphase, ci, pending, harvests, summarized,
                   thread_summaries, collected, thread_tests>>

\* The channel is in CHANNELS_TO_IGNORE: return.
ChannelIgnored ==
    /\ UNCHANGED crest
    /\ cphase = "start" /\ channel.ignored
    /\ cphase' = "done"
    /\ UNCHANGED <<channel, ci, pending, ctime, harvests, summarized,
                   thread_summaries, collected, thread_tests>>

\* messages = await fetch_messages_from_past(channel, DAYS_TO_LOOK_BACK);
\* all_messages.extend(messages)
HarvestChannel ==
    /\ UNCHANGED crest
    /\ cphase = "start" /\ ~channel.ignored
    /\ harvests' = Append(harvests, ChannelSource)
    /\ \E n \in 0..MaxMessages :
          collected' = collected \o [i \in 1..n |-> "channel"]
    /\ cphase' = AfterPhase(channel, "start")
    /\ ci' = 0
    /\ UNCHANGED <<channel, pending, ctime, summarized, thread_summaries, thread_tests>>

\* One turn of a loop over threads: if is_thread_recent(thread, ...) then
\* process_thread is called with the thread.
TestThread ==
    /\ UNCHANGED crest
    /\ cphase \in ThreadPhases /\ pending = NoThread
    /\ ci < Len(LoopThreads(channel, cphase))
    /\ LET thread == LoopThreads(channel, cphase)[ci + 1]
           recent == IsThreadRecent(thread, ctime)
       IN  /\ thread_tests' = Append(thread_tests,
                                     ThreadTest(thread, ctime, "process_channel", recent))
           /\ pending' = IF recent THEN thread ELSE NoThread
    /\ ci' = ci + 1
    /\ UNCHANGED <<channel, cphase, ctime, harvests, summarized, thread_summaries,
                   collected>>

\* process_thread: the thread is not recent, return.
SkipThread ==
    /\ UNCHANGED crest
    /\ pending # NoThread
    /\ ~IsThreadRecent(pending, ctime)
    /\ thread_tests' = Append(thread_tests,
                              ThreadTest(pending, ctime, "process_thread", FALSE))
    /\ pending' = NoThread
    /\ UNCHANGED <<channel, cphase, ci, ctime, harvests, summarized, thread_summaries,
                   collected>>

\* process_thread: the harvest of the thread returns no message (none in
\* the window, or a fault while reading), return.
HarvestThreadEmpty ==
    /\ UNCHANGED crest
    /\ pending # NoThread
    /\ IsThreadRecent(pending, ctime)
    /\ thread_tests' = Append(thread_tests,
                              ThreadTest(pending, ctime, "process_thread", TRUE))
    /\ harvests' = Append(harvests, pending.id)
    /\ pending' = NoThread
    /\ UNCHANGED <<channel, cphase, ci, ctime, summarized, thread_summaries, collected>>

\* process_thread: the harvest returns messages, generate_thread_summary
\* asks the oracle, and what it returns (a summary or its error text) is
\* stored under the key of the thread.
SummarizeThread ==
    /\ UNCHANGED crest
    /\ pending # NoThread
    /\ IsThreadRecent(pending, ctime)
    /\ thread_tests' = Append(thread_tests,
                              ThreadTest(pending, ctime, "process_thread", TRUE))
    /\ harvests' = Append(harvests, pending.id)
    /\ summarized' = Append(summarized, pending.id)
    /\ \E value \in OracleTexts \cup {ThreadErrorText(e) : e \in OracleFaults} :
          thread_summaries' = SetSummary(thread_summaries, pending.id, value)
    /\ pending' = NoThread
    /\ UNCHANGED <<channel, cphase, ci, ctime, collected>>

\* A loop over threads is through: the next statement.
EndOfThreads ==
    /\ UNCHANGED crest
    /\ cphase \in ThreadPhases /\ pending = NoThread
    /\ ci = Len(LoopThreads(channel, cphase))
    /\ cphase' = AfterPhase(channel, cphase)
    /\ ci' = 0
    /\ UNCHANGED <<channel, pending, ctime, harvests, summarized, thread_summaries,
                   collected, thread_tests>>

\* channel.archived_threads raises (the bot may not read them): the except
\* clause of process_channel prints and the function returns.
ArchivedThreadsFault ==
    /\ UNCHANGED crest
    /\ cphase \in {"archived", "forum archived"} /\ pending = NoThread /\ ci = 0
    /\ cphase' = "done"
    /\ UNCHANGED <<channel, ci, pending, ctime, harvests, summarized, thread_summaries,
                   collected, thread_tests>>

(* ------------- properties of process_channel and process_thread ------- *)

\* The window [now - N days, now] of the specification.
InsideRunWindow(t, now) == t # NoTime /\ UtcWindowStart(now) <= t /\ t <= now

\* How often x occurs in the list.
Occurrences(list, x) == Cardinality({k \in 1..Len(list) : list[k] = x})

\* C24: is_thread_recent answers yes exactly for the threads whose creation
\* time is inside the window [now - N days, now], and a thread that
\* process_thread finds not recent is not harvested for that call.
C24_RecentIffInsideWindow ==
    \A k \in 1..Len(thread_tests) :
        thread_tests[k].recent
            <=> InsideRunWindow(thread_tests[k].thread.created_at, thread_tests[k].now)

\* What process_thread does with a thread that its own test finds not
\* recent: nothing. Every harvest of a thread and every oracle call follows
\* a test of process_thread that found the thread recent, and a skip leaves
\* the lists as they were.
SkippedThreadUntouched ==
    /\ Len(harvests) - Occurrences(harvests, ChannelSource)
          = Cardinality({k \in 1..Len(thread_tests) :
                            /\ thread_tests[k].place = "process_thread"
                            /\ thread_tests[k].recent})
    /\ Len(summarized) <= Len(harvests) - Occurrences(harvests, ChannelSource)
    /\ \A k \in 1..Len(thread_summaries) :
          Occurrences(summarized, thread_summaries[k].key) >= 1

SkipThreadChangesNothing ==
    [][SkipThread => UNCHANGED <<harvests, summarized, thread_summaries, collected>>]_cvars

\* C28: in the run over a channel no thread is harvested twice and no
\* thread is summarized by the oracle twice.
C28_EachThreadAtMostOnce ==
    \A t \in 1..(2 * MaxThreads) :
        Occurrences(harvests, t) <= 1 /\ Occurrences(summarized, t) <= 1

\* In a channel that is no forum the same holds.
NoForumEachThreadAtMostOnce ==
    ~IsForum(channel) =>
        \A t \in 1..(2 * MaxThreads) :
            Occurrences(harvests, t) <= 1 /\ Occurrences(summarized, t) <= 1

(* ------- check_if_previously_won and get_deal_value_change ------------ *)

\* The lookup has not returned.
NoAnswer == "pending"

\* A value of old_value, new_value, to_value: a status or a number, as text.
StatusValues == {"won", "lost"}
NumberValues == {"1", "2"}

\* float(s) of a value; a status is no number (ValueError).
IsNumber(s) == s \in {"0", "1", "2"}
Float(s) == CASE s = "0" -> 0 [] s = "1" -> 1 [] s = "2" -> 2 [] OTHER -> 0

\* The 'data' of a flow item: absent (or null), or a dict with old_value
\* and new_value.
NoData == [present |-> FALSE, old_value |-> "", new_value |-> ""]
ItemData(o, n) == [present |-> TRUE, old_value |-> o, new_value |-> n]

\* A key the flow item does not have.
Absent == "absent"

\* A flow item that records a change of status, with no 'data'.
StatusItem(to) ==
    [object_type |-> "dealStatus", to_value |-> to, object |-> Absent,
     timestamp |-> NoTime, data |-> NoData]

\* A flow item that records the change of a field of the deal.
ChangeItem(t, o, n) ==
    [object_type |-> Absent, to_value |-> Absent, object |-> "dealChange",
     timestamp |-> t, data |-> ItemData(o, n)]

\* A flow item of another kind (an activity, a note), with no 'data'.
OtherItem ==
    [object_type |-> Absent, to_value |-> Absent, object |-> "activity",
     timestamp |-> WindowStart + 1, data |-> NoData]

FlowItems ==
    {StatusItem(to) : to \in StatusValues}
        \cup {ChangeItem(t, o, n) : t \in {WindowStart - 1, WindowStart + 1},
                                    o \in NumberValues, n \in NumberValues}
        \cup {ChangeItem(t, "won", "lost") : t \in {WindowStart - 1, WindowStart + 1}}
        \cup {ChangeItem(NoTime, "1", "2"), OtherItem}

Flows(longest) == UNION { [1..n -> FlowItems] : n \in 0..longest }

\* object_type == 'dealStatus' and flow_item.get('to_value') == 'won'
IsStatusWon(item) == item.object_type = "dealStatus" /\ item.to_value = "won"

\* flow_item.get('data', []).get('old_value'): a list, or None, has no get.
OldValueReadable(item) == item.data.present

\* flow_item.get('object') == 'dealChange'
IsDealChange(item) == item.object = "dealChange"

\* flow_item.get('timestamp') >= (now - days).isoformat(): None is not
\* comparable with a str.
TimestampComparable(item) == item.timestamp # NoTime
TimestampInWindow(item) == ~StrLess(PdTime(item.timestamp), SevenDaysAgoIso)

\* float(old_value), float(new_value)
ValuesAreNumbers(item) ==
    item.data.present => IsNumber(item.data.old_value) /\ IsNumber(item.data.new_value)

\* flow_item_data.get('old_value', '0'), .get('new_value', '0'); change
Delta(item) ==
    IF item.data.present
    THEN Float(item.data.new_value) - Float(item.data.old_value)
    ELSE 0

\* What one iteration of get_deal_value_change's loop does with the item.
ChangeStep(item) ==
    IF ~IsDealChange(item) THEN "next"
    ELSE IF ~TimestampComparable(item) THEN "fault"
    ELSE IF ~TimestampInWindow(item) THEN "next"
    ELSE IF ~ValuesAreNumbers(item) THEN "fault"
    ELSE IF Delta(item) < 0 THEN "Downgrade"
    ELSE IF Delta(item) > 0 THEN "Upgrade"
    ELSE "next"

FlowInit ==
    /\ flow_data \in Flows(MaxFlow)
    /\ lookup \in {"won", "change"}
    /\ fi = 0
    /\ flow_answer = NoAnswer
    /\ flow_fetched = FALSE
    /\ fpc = "start"

FlowReturn(value) ==
    /\ flow_answer' = value
    /\ fpc' = "done"

\* No credentials, the request raised, or the answer says success = false:
\* False, or None.
FlowRequestFault ==
    /\ UNCHANGED frest
    /\ fpc = "start"
    /\ FlowReturn(IF lookup = "won" THEN "False" ELSE NoChange)
    /\ UNCHANGED <<flow_data, lookup, fi, flow_fetched>>

\* The flow arrived.
FetchFlow ==
    /\ UNCHANGED frest
    /\ fpc = "start"
    /\ flow_fetched' = TRUE
    /\ fpc' = "loop"
    /\ UNCHANGED <<flow_data, lookup, fi, flow_answer>>

\* check_if_previously_won: the item is a change of status to won, or its
\* data has old_value 'won'.
WonFound ==
    /\ UNCHANGED frest
    /\ fpc = "loop" /\ lookup = "won" /\ fi < Len(flow_data)
    /\ LET item == flow_data[fi + 1]
       IN  \/ IsStatusWon(item)
           \/ OldValueReadable(item) /\ item.data.old_value = "won"
    /\ FlowReturn("True")
    /\ UNCHANGED <<flow_data, lookup, fi, flow_fetched>>

\* check_if_previously_won: the item is neither; on to the next.
WonNext ==
    /\ UNCHANGED frest
    /\ fpc = "loop" /\ lookup = "won" /\ fi < Len(flow_data)
    /\ LET item == flow_data[fi + 1]
       IN  ~IsStatusWon(item) /\ OldValueReadable(item) /\ item.data.old_value # "won"
    /\ fi' = fi + 1
    /\ UNCHANGED <<flow_data, lookup, flow_answer, flow_fetched, fpc>>

\* check_if_previously_won: the item has no data dict; .get raises
\* AttributeError and the except clause returns False.
WonItemFault ==
    /\ UNCHANGED frest
    /\ fpc = "loop" /\ lookup = "won" /\ fi < Len(flow_data)
    /\ LET item == flow_data[fi + 1]
       IN  ~IsStatusWon(item) /\ ~OldValueReadable(item)
    /\ FlowReturn("False")
    /\ UNCHANGED <<flow_data, lookup, fi, flow_fetched>>

\* check_if_previously_won: the loop ended; return False.
WonNotFound ==
    /\ UNCHANGED frest
    /\ fpc = "loop" /\ lookup = "won" /\ fi = Len(flow_data)
    /\ FlowReturn("False")
    /\ UNCHANGED <<flow_data, lookup, fi, flow_fetched>>

\* get_deal_value_change: a dealChange inside the window with a change
\* below or above zero; the text is returned.
ChangeFound ==
    /\ UNCHANGED frest
    /\ fpc = "loop" /\ lookup = "change" /\ fi < Len(flow_data)
    /\ ChangeStep(flow_data[fi + 1]) \in ValueChangeTexts
    /\ FlowReturn(ChangeStep(flow_data[fi + 1]))
    /\ UNCHANGED <<flow_data, lookup, fi, flow_fetched>>

\* get_deal_value_change: not a dealChange, or before the window, or a
\* change of zero; on to the next.
ChangeNext ==
    /\ UNCHANGED frest
    /\ fpc = "loop" /\ lookup = "change" /\ fi < Len(flow_data)
    /\ ChangeStep(flow_data[fi + 1]) = "next"
    /\ fi' = fi + 1
    /\ UNCHANGED <<flow_data, lookup, flow_answer, flow_fetched, fpc>>

\* get_deal_value_change: the comparison with a timestamp of None, or float
\* of a value that is no number, raises; the except clause returns None.
ChangeItemFault ==
    /\ UNCHANGED frest
    /\ fpc = "loop" /\ lookup = "change" /\ fi < Len(flow_data)
    /\ ChangeStep(flow_data[fi + 1]) = "fault"
    /\ FlowReturn(NoChange)
    /\ UNCHANGED <<flow_data, lookup, fi, flow_fetched>>

\* get_deal_value_change: the loop ended; return None.
ChangeNotFound ==
    /\ UNCHANGED frest
    /\ fpc = "loop" /\ lookup = "change" /\ fi = Len(flow_data)
    /\ FlowReturn(NoChange)
    /\ UNCHANGED <<flow_data, lookup, fi, flow_fetched>>

(* ----------------- properties of the history lookups ------------------ *)

\* A transition that reached won, or an entry that records won as old value.
IsWonEntry(item) ==
    \/ item.object_type = "dealStatus" /\ item.to_value = "won"
    \/ item.data.present /\ item.data.old_value = "won"

WonLookupReturned == fpc = "done" /\ lookup = "won" /\ flow_fetched

\* C25 (as claimed): when the history was fetched, check_if_previously_won
\* returns True if and only if some entry of the history is a transition to
\* won or records won as the old value, wherever the entry stands and
\* whatever entries stand before it.
C25_PreviouslyWonIffSomeEntry ==
    WonLookupReturned =>
        (flow_answer = "True" <=> \E k \in 1..Len(flow_data) : IsWonEntry(flow_data[k]))

\* What the walk does: True if and only if a won entry is reached before any
\* entry that is no transition to won and has no data dict.
PreviouslyWonUpToFirstItemWithoutData ==
    WonLookupReturned =>
        (flow_answer = "True" <=>
            \E k \in 1..Len(flow_data) :
                /\ IsWonEntry(flow_data[k])
                /\ \A j \in 1..(k - 1) :
                      IsWonEntry(flow_data[j]) \/ flow_data[j].data.present)

\* An entry inside the window whose delta is not zero.
Qualifies(item) ==
    /\ item.object = "dealChange"
    /\ item.timestamp # NoTime /\ item.timestamp > WindowStart
    /\ item.data.present
    /\ IsNumber(item.data.old_value) /\ IsNumber(item.data.new_value)
    /\ Float(item.data.new_value) # Float(item.data.old_value)

Faults(item) == ChangeStep(item) = "fault"

FirstQualifying(k) ==
    /\ k \in 1..Len(flow_data)
    /\ Qualifies(flow_data[k])
    /\ \A j \in 1..(k - 1) : ~Qualifies(flow_data[j])

\* The text get_deal_value_change returns is made of the first entry inside
\* the window with a delta that is not zero, negative for Downgrade and
\* positive for Upgrade; with no entry that makes the walk fault before it,
\* that entry is found.
FirstQualifyingEntryUsed ==
    (fpc = "done" /\ lookup = "change" /\ flow_fetched) =>
        /\ flow_answer = "Downgrade" =>
              \E k \in 1..Len(flow_data) :
                  FirstQualifying(k) /\ Delta(flow_data[k]) < 0
        /\ flow_answer = "Upgrade" =>
              \E k \in 1..Len(flow_data) :
                  FirstQualifying(k) /\ Delta(flow_data[k]) > 0
        /\ \A k \in 1..Len(flow_data) :
              (FirstQualifying(k) /\ \A j \in 1..(k - 1) : ~Faults(flow_data[j]))
                  => flow_answer \in ValueChangeTexts

(* ------------------ properties of the value-delta pass ---------------- *)

\* The entries of a category that the value-delta pass made for a deal.
DeltaEntries(cat, i) ==
    Cardinality({k \in 1..Len(cat) : cat[k].deal = i /\ cat[k].form \in ValueChangeTexts})

\* C27 (as claimed): in the mapping returned after the deal list was
\* fetched, a deal for which get_deal_value_change found a negative change
\* has exactly one value-delta entry in downgrades and none in upgrades, a
\* deal with a positive change exactly one in upgrades and none in
\* downgrades, and a deal with no qualifying change has none in either
\* while the categories of the other deals are still produced: every open
\* deal is in to_convert.
C27_ValueDeltaPass ==
    (dresult.returned /\ fetch_outcome = "ok") =>
        \A c \in changes :
            /\ c.text = "Downgrade" =>
                  /\ DeltaEntries(Returns("downgrades"), c.deal) = 1
                  /\ DeltaEntries(Returns("upgrades"), c.deal) = 0
            /\ c.text = "Upgrade" =>
                  /\ DeltaEntries(Returns("upgrades"), c.deal) = 1
                  /\ DeltaEntries(Returns("downgrades"), c.deal) = 0
            /\ c.text = NoChange =>
                  /\ DeltaEntries(Returns("upgrades"), c.deal) = 0
                  /\ DeltaEntries(Returns("downgrades"), c.deal) = 0
                  /\ \A i \in 1..Len(deals) :
                        deals[i].status = "open" => InCategory(Returns("to_convert"), i)

\* What the pass does when every lookup finds a change: one entry per
\* examined deal, in the list its text names.
ValueDeltaPassWhenEveryDealChanged ==
    (dresult.returned /\ fetch_outcome = "ok"
        /\ \A c \in changes : c.text # NoChange) =>
        \A c \in changes :
            /\ c.text = "Downgrade" =>
                  /\ DeltaEntries(Returns("downgrades"), c.deal) = 1
                  /\ DeltaEntries(Returns("upgrades"), c.deal) = 0
            /\ c.text = "Upgrade" =>
                  /\ DeltaEntries(Returns("upgrades"), c.deal) = 1
                  /\ DeltaEntries(Returns("downgrades"), c.deal) = 0

(* ---------------- termination of the inline parser -------------------- *)

\* A plain run of the list with nothing in it.
HasEmptyPlainRun(runs) ==
    \E k \in 1..Len(runs) : IsPlain(runs[k]) /\ runs[k].content = <<>>

NoEmptyPlainRun ==
    /\ HasEmptyPlainRun(rich_text) => text = <<>>
    /\ (ppc = "done" /\ HasEmptyPlainRun(parsed)) => text = <<>>

\* C29: parse_rich_text_with_links terminates on every text: every iteration
\* of the loop that does not leave it moves current_pos forward, current_pos
\* never passes the length of the text, no plain run that is emitted is
\* empty unless the text is empty, and the call returns.
C29_ScanTerminates ==
    /\ [][ParseMatch => current_pos' > current_pos]_pvars
    /\ [](current_pos <= Len(text))
    /\ [](NoEmptyPlainRun)
    /\ <>(ppc = "done")

\* The same without the return, for the longer texts.
ScanAdvancesWithinText ==
    /\ [][ParseMatch => current_pos' > current_pos]_pvars
    /\ [](current_pos <= Len(text))
    /\ [](NoEmptyPlainRun)

\* C29 witness: the call returned after an iteration that emitted a plain
\* run and a run of markup whose match ends the text, the loop ending at
\* current_pos = len(text).
C29_Witness ==
    /\ ppc = "done" /\ current_pos = Len(text) /\ Len(text) = MaxLiveText
    /\ Len(rich_text) = 2
    /\ IsPlain(rich_text[1]) /\ rich_text[1].content # <<>>
    /\ ~IsPlain(rich_text[2])

(* -------------------------- specifications ---------------------------- *)

vars == <<hvars, dvars, wvars, pvars, bvars, svars, rvars, cvars, fvars>>

\* The component that a specification does not run stays as constructed.
HarvestIdle ==
    /\ feed = <<>> /\ is_thread = FALSE /\ origin = NoMessage
    /\ pc = "idle" /\ first_message = NoMessage /\ last_id = NoCursor
    /\ fetch_more = FALSE /\ messages = <<>> /\ result = <<>>
    /\ outcome = "running" /\ requests = <<>> /\ pages = <<>>
    /\ origin_fault = FALSE /\ read_fault = FALSE

DealsIdle ==
    /\ deals = <<>> /\ dpc = "idle" /\ filtered = <<>> /\ vi = 0 /\ di = 0
    /\ converted = <<>> /\ churned = <<>> /\ lost_deals = <<>>
    /\ to_convert = <<>> /\ new_trials = <<>>
    /\ upgrades = <<>> /\ downgrades = <<>>
    /\ lookups = {} /\ dresult = NoResult
    /\ fetch_outcome = "none" /\ changes = {}
    /\ organizations = NoResponse /\ first_run = NoResult

WonIdle == crm_deals = <<>> /\ wpc = "idle" /\ total_won_value = NoTotal

ParseIdle ==
    /\ text = <<>> /\ current_pos = 0 /\ rich_text = <<>> /\ spans = <<>>
    /\ parsed = NoRuns /\ ppc = "idle"

BlocksIdle ==
    /\ markdown = <<>> /\ lines = <<>> /\ li = 0 /\ blocks = <<>>
    /\ sources = <<>> /\ bpc = "idle"

SummaryIdle ==
    /\ operation = "none" /\ all_messages = <<>> /\ spc = "idle" /\ prompt = <<>>
    /\ summary = NoSummary /\ oracle_calls = 0 /\ crm_calls = 0
    /\ process = "running"

RunIdle == clock = 0 /\ utc_offset = 0 /\ rpc = 0 /\ window_tests = <<>>

ChannelIdle ==
    /\ channel = NoChannel /\ cphase = "idle" /\ ci = 0 /\ pending = NoThread
    /\ ctime = 0 /\ harvests = <<>> /\ summarized = <<>>
    /\ thread_summaries = <<>> /\ collected = <<>> /\ thread_tests = <<>>

FlowIdle ==
    /\ flow_data = <<>> /\ lookup = "none" /\ fi = 0 /\ flow_answer = NoAnswer
    /\ flow_fetched = FALSE /\ fpc = "idle"

\* Every component but the one that a specification runs.
IdleBut(component) ==
    /\ IF component = "harvest" THEN TRUE ELSE HarvestIdle
    /\ IF component = "deals" THEN TRUE ELSE DealsIdle
    /\ IF component = "won" THEN TRUE ELSE WonIdle
    /\ IF component = "parse" THEN TRUE ELSE ParseIdle
    /\ IF component = "blocks" THEN TRUE ELSE BlocksIdle
    /\ IF component = "summary" THEN TRUE ELSE SummaryIdle
    /\ IF component = "run" THEN TRUE ELSE RunIdle
    /\ IF component = "channel" THEN TRUE ELSE ChannelIdle
    /\ IF component = "flow" THEN TRUE ELSE FlowIdle

\* One call of fetch_messages_from_past.
Init == HarvestInit /\ IdleBut("harvest")

\* One call of fetch_messages_from_past on messages with content.
InitUrls == UrlsInit /\ IdleBut("harvest")

Next ==
    \/ NotAThread
    \/ FetchFirstMessage
    \/ FirstMessageFault
    \/ FetchPage
    \/ ReadFault
    \/ SortAndReturn

Spec == Init /\ [][Next]_vars

\* One call of fetch_recent_pipedrive_deals.
InitDeals == DealsInit /\ IdleBut("deals")

NextDeals ==
    \/ NoCredentials
    \/ FetchDealsFault
    \/ FetchDeals
    \/ ValueChange
    \/ ValueChangeNone
    \/ ProcessDeal
    \/ ReturnDeals

SpecDeals == InitDeals /\ [][NextDeals]_vars

\* One call of fetch_recent_pipedrive_deals on deals titled with the words of
\* the title rules.
InitKeywords == KeywordsInit /\ IdleBut("deals")

SpecKeywords == InitKeywords /\ [][NextDeals]_vars

\* Two calls of fetch_recent_pipedrive_deals, one after the other.
NextRerun ==
    \/ NoCredentials
    \/ FetchDealsFault
    \/ FetchDeals
    \/ ValueChange
    \/ ValueChangeNone
    \/ ProcessDeal
    \/ ReturnDeals
    \/ Rerun

SpecRerun == InitDeals /\ [][NextRerun]_vars

\* One call of fetch_recent_pipedrive_deals, the organizations of the CRM
\* being fixed beforehand.
InitOrganizations == OrganizationsInit /\ IdleBut("deals")

SpecOrganizations == InitOrganizations /\ [][NextDeals]_vars

\* One call of calculate_total_won_value.
InitWon == WonInit /\ IdleBut("won")

NextWon ==
    \/ WonNoCredentials
    \/ WonFetchFault
    \/ CalculateTotalWonValue

SpecWon == InitWon /\ [][NextWon]_vars

\* One call of parse_rich_text_with_links.
InitParse == ParseInit /\ IdleBut("parse")

NextParse ==
    \/ ParseMatch
    \/ ParseRest
    \/ ParseReturn

SpecParse == InitParse /\ [][NextParse]_vars

\* One call of convert_markdown_to_blocks.
InitBlocks == BlocksInit /\ IdleBut("blocks")

NextBlocks ==
    \/ SplitLines
    \/ BlankLine
    \/ HeadingLine
    \/ BulletLine
    \/ NumberedLine
    \/ CodeLine
    \/ ParagraphLine
    \/ ReturnBlocks

SpecBlocks == InitBlocks /\ [][NextBlocks]_vars

\* One call of generate_guild_summary, generate_thread_summary or
\* load_data_from_file.
InitSummary == SummaryInit /\ IdleBut("summary")

NextSummary ==
    \/ GuildEmpty
    \/ GuildFetchDeals
    \/ GuildTotalWon
    \/ GuildTotalWonFault
    \/ GuildOracle
    \/ GuildOracleFault
    \/ ThreadEmpty
    \/ ThreadOracle
    \/ ThreadOracleFault
    \/ LoadData
    \/ LoadFault

SpecSummary == InitSummary /\ [][NextSummary]_vars

\* The window tests of one run of the bot.
InitRun == RunInit /\ IdleBut("run")

NextRun ==
    \/ Tick
    \/ MessageCutoff
    \/ ThreadRecency
    \/ DealDate
    \/ ValueFilterStart
    \/ ValueChangeStart
    \/ OrganizationAddTime

SpecRun == InitRun /\ [][NextRun]_vars

\* One call of process_channel.
InitChannel == ChannelInit /\ IdleBut("channel")

NextChannel ==
    \/ ChannelTick
    \/ ChannelIgnored
    \/ HarvestChannel
    \/ TestThread
    \/ SkipThread
    \/ HarvestThreadEmpty
    \/ SummarizeThread
    \/ EndOfThreads
    \/ ArchivedThreadsFault

SpecChannel == InitChannel /\ [][NextChannel]_vars

\* One call of check_if_previously_won or of get_deal_value_change.
InitFlow == FlowInit /\ IdleBut("flow")

NextFlow ==
    \/ FlowRequestFault
    \/ FetchFlow
    \/ WonFound
    \/ WonNext
    \/ WonItemFault
    \/ WonNotFound
    \/ ChangeFound
    \/ ChangeNext
    \/ ChangeItemFault
    \/ ChangeNotFound

SpecFlow == InitFlow /\ [][NextFlow]_vars

SpecUrls == InitUrls /\ [][Next]_vars

\* The call runs on: a step that can be taken is taken.
InitParseLive == ParseLiveInit /\ IdleBut("parse")

SpecParseLive == InitParseLive /\ [][NextParse]_vars /\ WF_vars(NextParse)

=============================================================================
